---- MODULE Spec2Model ----
(***************************************************************************)
(* A model of the zen-freq cpufreq driver (src/zen-freq.c, src/zen-freq.h):*)
(* the thermal guard and its PI controller, the RCU-protected performance  *)
(* target, the lock-less fast switch, the policy update and the teardown.  *)
(***************************************************************************)
EXTENDS Integers, Sequences, FiniteSets, TLC

(***************************************************************************)
(* Bounds of the model.                                                    *)
(***************************************************************************)
\* cores the model keeps (the driver has one zen_freq_cpu per CPU)
NumCores == 2
\* ceiling changes a core's thermal-events counter can count
MaxThermalEvents == 2
\* concurrent callers of the fast switch
NumReaders == 2
\* performance targets the allocator can hold at a time
NumTargets == 4
\* polls of the PI controller run under a sustained temperature
MaxPiPolls == 20
\* ticks the model lets jiffies advance to
MaxJiffies == 8
\* clamps the voltage verifier run on its own can count
MaxClamps == 3
\* nanoseconds of I/O wait a core accumulates in the model
MaxIoWait == 300000
\* P-state transitions zen_freq_set_pstate_zero_ipi counts in the model
MaxTransitions == 3

Cores == 1..NumCores
Readers == 1..NumReaders
Slots == 1..NumTargets

(***************************************************************************)
(* Program constants.                                                      *)
(***************************************************************************)
ZEN_THERMAL_SOFT_LIMIT == 80
ZEN_THERMAL_HARD_LIMIT == 90
ZEN_THERMAL_HYSTERESIS == 3
ZEN_THERMAL_SAFE_LIMIT == 75
ZEN_THERMAL_KP == 50
ZEN_THERMAL_KI == 10
ZEN_THERMAL_INTEGRAL_MAX == 1000
ZEN_EPP_BALANCE == 128
ZEN_EPP_POWERSAVE == 255
ZEN_EPP_PERFORMANCE == 0
ZEN_UTIL_LOW_THRESHOLD == 10
ZEN_UTIL_HIGH_THRESHOLD == 80
ZEN_EPP_LOW_UTIL_DELAY_MS == 500
ZEN_IO_BOOST_DURATION_MS == 50
ZEN_VOLTAGE_MAX_SAFE == 1450
ZEN_VOLTAGE_BOOST_MAX == 1500
NSEC_PER_USEC == 1000
\* the tick rate the kernel is built with
HZ == 100
ZEN_FREQ_MODE_POWERSAVE == 0
ZEN_FREQ_MODE_BALANCE == 1
ZEN_FREQ_MODE_PERFORMANCE == 2
ZEN_FREQ_MODE_USERSPACE == 3
ZEN_FREQ_BASE == 25
ZEN_FREQ_MULTIPLIER == 1000
ZEN_MAX_PSTATES == 8
ENODEV == 19
ENOMEM == 12

\* module parameters soft_temp and hard_temp at their defaults
zen_freq_soft_temp == ZEN_THERMAL_SOFT_LIMIT
zen_freq_hard_temp == ZEN_THERMAL_HARD_LIMIT

\* values of the module parameter max_perf the model is run with (default 255)
MaxPerfParams == {255, 200}

\* the samples of the worked example of the thermal state machine
ExampleTemps == <<70, 85, 95, 86, 76, 70>>

\* temperature fields THERM_STATUS_TEMP can deliver (7 bits), a sample of them
TempFields == {0, 70, 75, 76, 77, 80, 85, 86, 87, 95}

\* a thermal status MSR read: rdmsrl_safe_on_cpu failed, the valid bit, the field
SensorReads ==
    [err : {TRUE}, valid : {FALSE}, temp : {0}]
        \cup [err : {FALSE}, valid : {FALSE}, temp : {70}]
        \cup [err : {FALSE}, valid : {TRUE}, temp : TempFields]

\* the reads the thermal loop gets in the runs of policy updates and teardown
CoarseReads ==
    [err : {FALSE}, valid : {FALSE}, temp : {70}]
        \cup [err : {FALSE}, valid : {TRUE}, temp : {70, 95}]

\* P-state tables read from the hardware, frequencies in kHz, P0 first
Tables == {<<3600000, 2800000, 2200000>>, <<3000000>>}

\* policy bounds a caller can ask for, in kHz
PolicyFreqs == {2000000, 2200000, 2800000, 3600000, 4000000}

\* sustained temperatures the PI controller is run under
PiTemps == 81..95

\* the voltage id the hardware reports for a P-state of a frequency
TableVid(f) == IF f >= 3600000 THEN 3 ELSE IF f >= 2800000 THEN 10 ELSE 20

\* voltage ids handed to the voltage verifier on its own: 1550 mV down to
\* 1400 mV, and one past the range of the linear approximation
VidFields == {0, 1, 2, 3, 4, 5, 6, 70}

\* values the voltage_max attribute is set to (accepted: 1000..1600)
VoltageCeilings == {1400, 1450, 1475, 999}

\* increases of the I/O wait between two utilization samples, in nanoseconds
IoWaitDeltas == {0, 100000, 100001, 150000}

\* utilization percentages of the samples
UtilSamples == {5, 50, 90}

\* values an uninitialized u8 local can hold when it is read (any of 0..255),
\* a sample of them; the model adds the value the ceiling already has
UninitU8 == {0, 100, 250, 255}

VARIABLES
    zen_freq_max_perf,      \* module parameter max_perf
    thermal_state,          \* zcpu->thermal_state, per core
    thermal_integral,       \* zcpu->thermal_integral
    thermal_throttle_perf,  \* zcpu->thermal_throttle_perf
    last_temp,              \* zcpu->last_temp
    thermal_events,         \* zcpu->stats.thermal_events
    lowest_perf,            \* zcpu->lowest_perf
    highest_perf,           \* zcpu->highest_perf
    pstates,                \* zcpu->pstates[i].freq, i < num_pstates
    min_freq,               \* zcpu->min_freq
    max_freq,               \* zcpu->max_freq
    cur_pstate,             \* zcpu->cur_pstate
    dynamic_epp,            \* zcpu->dynamic_epp
    nominal_freq,           \* zcpu->nominal_freq
    io_boost_active,        \* zcpu->io_boost_active
    io_boost_expire,        \* zcpu->io_boost_expire, in jiffies
    last_io_wait,           \* zcpu->last_io_wait, in nanoseconds
    io_boosts,              \* zcpu->stats.io_boosts
    util_low_since,         \* zcpu->util_low_since, in jiffies
    cur_freq,               \* zcpu->cur_freq
    ipi_pending,            \* zen_write_pstate_local is queued on the core
    pstate_safe,            \* zcpu->pstates[i].safe
    voltage_clamps,         \* zcpu->stats.voltage_clamps
    policy_min,             \* policy->min of the core's cpufreq policy
    policy_max,             \* policy->max
    zfreq_cpu_data,         \* per_cpu(zfreq_cpu_data, cpu) # NULL
    zcpu_mem,               \* the core's struct zen_freq_cpu: "none", "live", "freed"
    table_mem,              \* the core's freq_table: "none", "live", "freed"
    perf_target,            \* zcpu->perf_target: a slot, 0 for NULL
    tgt,                    \* the struct zen_perf_target of each slot
    rcu_cbs,                \* kfree_rcu callbacks queued, each with the readers
                            \* whose read-side critical section it waits for
    rd_pc,                  \* where each caller of the fast switch is
    rd_cpu,                 \* the core of its policy
    rd_target,              \* its local target
    rd_best,                \* its local best_freq
    rd_uaf,                 \* a caller of the fast switch used a freed zcpu
    rd_req,                 \* its target_freq
    rd_cur,                 \* policy->cur as it read it
    switched,               \* the latest completed call of the fast switch,
                            \* until the next call begins
    pub_pc,                 \* where the caller of zen_perf_target_update is
    pub_cpu,                \* its zcpu
    pub_new,                \* its new_target
    pub_old,                \* its old_target
    oops,                   \* a divide error was raised
    tt_pc,                  \* where the thermal thread is
    tt_cpu,                 \* the cpu of its for_each_online_cpu loop
    thermal_uaf,            \* zen_thermal_check_cpu ran on a freed zcpu
    should_stop,            \* kthread_should_stop() of the thermal thread
    mx_pc,                  \* where zen_freq_exit is
    pi_temp,                \* the temperature a PI controller run is held at
    pi_integral,            \* the integral accumulator of the run
    pi_out,                 \* the ceilings the run has returned
    rd_seen,                \* the thermal state, ceiling and boost flag a call read
    jiffies,                \* the kernel's tick counter
    zen_freq_voltage_max,   \* module parameter voltage_max
    vps,                    \* a struct zen_pstate handed to the voltage verifier
    vret,                   \* what the verifier returned for it
    vclamps,                \* the clamps counted for it
    sampled,                \* the core and the inputs of the latest utilization sample
    zen_freq_mode,          \* module parameter mode
    update_lock,            \* zcpu->update_lock is held, per core
    pdef,                   \* a P-state definition MSR value handed to the decoder
    pfreq,                  \* the frequency decoded from it, in kHz
    inited,                 \* the core, the MSR bank and the result of the latest
                            \* zen_freq_init_cpu
    low_run,                \* per core, the time of the first sample of the unbroken
                            \* run of below-threshold samples its latest sample is
                            \* in (0: the latest sample was not below the threshold)
    transitions,            \* per core, stats.transitions
    onl,                    \* the publish the CPU-online hook is in: its step, its
                            \* core, its new target and the target it read as current
    polled,                 \* the core and the sensor read of the latest poll
    exPos                   \* samples of ExampleTemps core 1 has taken so far, in
                            \* order and from its initial state (-1: another run)

thermalVars == <<thermal_state, thermal_integral, thermal_throttle_perf,
                 last_temp, thermal_events>>
coreVars == <<lowest_perf, highest_perf, pstates, min_freq, max_freq,
              cur_pstate, dynamic_epp, nominal_freq, io_boost_active,
              io_boost_expire, last_io_wait, io_boosts, util_low_since,
              cur_freq, ipi_pending, pstate_safe, voltage_clamps>>
policyVars == <<policy_min, policy_max>>
allocVars == <<zfreq_cpu_data, zcpu_mem, table_mem>>
targetVars == <<perf_target, tgt, rcu_cbs>>
readerVars == <<rd_pc, rd_cpu, rd_target, rd_best, rd_uaf, rd_req, rd_cur,
                rd_seen, switched>>
initVars == <<zen_freq_mode, update_lock, pdef, pfreq, inited>>
newVars == <<initVars, low_run, transitions, onl>>
hwVars == <<jiffies, zen_freq_voltage_max, vps, vret, vclamps, sampled, newVars>>
pubVars == <<pub_pc, pub_cpu, pub_new, pub_old, oops>>
threadVars == <<tt_pc, tt_cpu, thermal_uaf, should_stop>>
piVars == <<pi_temp, pi_integral, pi_out>>
pollVars == <<polled, exPos>>
vars == <<zen_freq_max_perf, hwVars, thermalVars, coreVars, policyVars, allocVars,
          targetVars, readerVars, pubVars, threadVars, mx_pc, piVars, pollVars>>

(***************************************************************************)
(* C arithmetic.                                                           *)
(***************************************************************************)
\* signed division of C: the quotient is truncated toward zero
CDiv(a, b) == IF a >= 0 THEN a \div b ELSE -((-a) \div b)

ZEN_CLAMP(val, lo, hi) == IF val < lo THEN lo ELSE IF val > hi THEN hi ELSE val

U8(x) == x % 256

Min(a, b) == IF a < b THEN a ELSE b

(***************************************************************************)
(* zen_read_temperature: 0 on a read error or a clear valid bit.           *)
(***************************************************************************)
\* variant: the valid bit is not checked
zen_read_temperature_novalid(rd) ==
    IF rd.err THEN 0 ELSE rd.temp

zen_read_temperature(rd) ==
    IF rd.err THEN 0
    ELSE IF rd.valid THEN rd.temp
    ELSE 0

(***************************************************************************)
(* zen_thermal_pi_controller: the new integral and the returned max_perf.  *)
(***************************************************************************)
\* variant: no anti-windup
PiIntegral_unclamped(integral, temp) == integral + (temp - zen_freq_soft_temp)

PiIntegral(integral, temp) ==
    LET error == temp - zen_freq_soft_temp
        sum == integral + error
    IN  IF sum > ZEN_THERMAL_INTEGRAL_MAX THEN ZEN_THERMAL_INTEGRAL_MAX
        ELSE IF sum < -ZEN_THERMAL_INTEGRAL_MAX THEN -ZEN_THERMAL_INTEGRAL_MAX
        ELSE sum

PiMaxPerf(integral, temp) ==
    LET error == temp - zen_freq_soft_temp
        proportional == CDiv(error * ZEN_THERMAL_KP, 1000)
        integ == CDiv(PiIntegral(integral, temp) * ZEN_THERMAL_KI, 1000)
        adjustment == proportional + integ
    IN  IF adjustment > 0 THEN 255 - ZEN_CLAMP(adjustment, 0, 255) ELSE 255

zen_thermal_pi_controller(integral, temp) ==
    [integral |-> PiIntegral(integral, temp), max_perf |-> PiMaxPerf(integral, temp)]

(***************************************************************************)
(* The state machine of zen_thermal_check_cpu for a nonzero temperature:   *)
(* the new state, the new integral and new_max_perf.  The branch           *)
(* SOFT_THROTTLE -> RECOVERY leaves new_max_perf unassigned: garbage is    *)
(* what the read of it yields.                                             *)
(***************************************************************************)
ThermalNormal(integral, lowest, maxparam, temp) ==
    IF temp >= zen_freq_hard_temp
    THEN [state |-> "HARD_THROTTLE", integral |-> integral, new_max_perf |-> lowest]
    ELSE IF temp >= zen_freq_soft_temp
    THEN [state |-> "SOFT_THROTTLE",
          integral |-> zen_thermal_pi_controller(integral, temp).integral,
          new_max_perf |-> zen_thermal_pi_controller(integral, temp).max_perf]
    ELSE [state |-> "NORMAL", integral |-> integral, new_max_perf |-> U8(maxparam)]

\* variant: a cooled soft throttle goes straight back to normal
ThermalSoft_tonormal(integral, lowest, temp, garbage) ==
    IF temp >= zen_freq_hard_temp
    THEN [state |-> "HARD_THROTTLE", integral |-> integral, new_max_perf |-> lowest]
    ELSE IF temp < zen_freq_soft_temp - ZEN_THERMAL_HYSTERESIS
    THEN [state |-> "NORMAL", integral |-> 0, new_max_perf |-> garbage]
    ELSE [state |-> "SOFT_THROTTLE",
          integral |-> zen_thermal_pi_controller(integral, temp).integral,
          new_max_perf |-> zen_thermal_pi_controller(integral, temp).max_perf]

ThermalSoft(integral, lowest, temp, garbage) ==
    IF temp >= zen_freq_hard_temp
    THEN [state |-> "HARD_THROTTLE", integral |-> integral, new_max_perf |-> lowest]
    ELSE IF temp < zen_freq_soft_temp - ZEN_THERMAL_HYSTERESIS
    THEN [state |-> "RECOVERY", integral |-> 0, new_max_perf |-> garbage]
    ELSE [state |-> "SOFT_THROTTLE",
          integral |-> zen_thermal_pi_controller(integral, temp).integral,
          new_max_perf |-> zen_thermal_pi_controller(integral, temp).max_perf]

\* variant: leaving the hard throttle goes straight to recovery
ThermalHard_torecovery(integral, lowest, temp) ==
    IF temp < zen_freq_hard_temp - ZEN_THERMAL_HYSTERESIS
    THEN [state |-> "RECOVERY", integral |-> 0, new_max_perf |-> lowest]
    ELSE [state |-> "HARD_THROTTLE", integral |-> integral, new_max_perf |-> lowest]

ThermalHard(integral, lowest, temp) ==
    IF temp < zen_freq_hard_temp - ZEN_THERMAL_HYSTERESIS
    THEN [state |-> "SOFT_THROTTLE",
          integral |-> zen_thermal_pi_controller(integral, temp).integral,
          new_max_perf |-> zen_thermal_pi_controller(integral, temp).max_perf]
    ELSE [state |-> "HARD_THROTTLE", integral |-> integral, new_max_perf |-> lowest]

ThermalRecovery(integral, ceiling, maxparam, temp) ==
    IF temp < ZEN_THERMAL_SAFE_LIMIT
    THEN [state |-> "NORMAL", integral |-> integral, new_max_perf |-> U8(maxparam)]
    ELSE IF temp >= zen_freq_soft_temp
    THEN [state |-> "SOFT_THROTTLE",
          integral |-> zen_thermal_pi_controller(integral, temp).integral,
          new_max_perf |-> zen_thermal_pi_controller(integral, temp).max_perf]
    ELSE [state |-> "RECOVERY", integral |-> integral,
          new_max_perf |-> Min(ceiling + 10, 255)]

ThermalStep(state, integral, ceiling, lowest, maxparam, temp, garbage) ==
    CASE state = "NORMAL" -> ThermalNormal(integral, lowest, maxparam, temp)
      [] state = "SOFT_THROTTLE" -> ThermalSoft(integral, lowest, temp, garbage)
      [] state = "HARD_THROTTLE" -> ThermalHard(integral, lowest, temp)
      [] state = "RECOVERY" -> ThermalRecovery(integral, ceiling, maxparam, temp)

\* the early return of zen_thermal_check_cpu
PollSkipped(temp) == temp = 0

\* the polls whose switch branch assigns no new_max_perf before it is read
ReadsUninit(state, temp) ==
    /\ state = "SOFT_THROTTLE"
    /\ ~(temp >= zen_freq_hard_temp)
    /\ temp < zen_freq_soft_temp - ZEN_THERMAL_HYSTERESIS

(***************************************************************************)
(* zen_thermal_check_cpu(zcpu) with the thermal status read rd, in a run   *)
(* that counts no more than cap thermal events.                            *)
(***************************************************************************)
zen_thermal_check_cpu_capped(c, rd, cap) ==
    LET temp == zen_read_temperature(rd) IN
    IF PollSkipped(temp)
    THEN UNCHANGED thermalVars
    ELSE \E garbage \in (IF ReadsUninit(thermal_state[c], temp)
                          THEN UninitU8 \cup {thermal_throttle_perf[c]} ELSE {0}) :
         LET r == ThermalStep(thermal_state[c], thermal_integral[c],
                              thermal_throttle_perf[c], lowest_perf[c],
                              zen_freq_max_perf, temp, garbage)
             changed == r.new_max_perf # thermal_throttle_perf[c]
         IN  /\ changed => thermal_events[c] < cap
             /\ last_temp' = [last_temp EXCEPT ![c] = temp]
             /\ thermal_integral' = [thermal_integral EXCEPT ![c] = r.integral]
             /\ thermal_throttle_perf' =
                    [thermal_throttle_perf EXCEPT ![c] = r.new_max_perf]
             /\ thermal_events' =
                    [thermal_events EXCEPT ![c] = IF changed THEN @ + 1 ELSE @]
             /\ thermal_state' = [thermal_state EXCEPT ![c] = r.state]

zen_thermal_check_cpu(c, rd) == zen_thermal_check_cpu_capped(c, rd, MaxThermalEvents)

\* the position in ExampleTemps after core c has polled temp
ExampleNext(pos, c, temp) ==
    IF PollSkipped(temp) THEN pos
    ELSE IF c = 1 /\ pos >= 0 /\ pos < Len(ExampleTemps) /\ temp = ExampleTemps[pos + 1]
    THEN pos + 1
    ELSE -1

(***************************************************************************)
(* One pass of the thermal loop over one registered core, the thermal      *)
(* status read drawn from reads, in a run that counts no more than cap     *)
(* thermal events.                                                         *)
(***************************************************************************)
ThermalPollCapped(c, reads, cap) ==
    /\ zfreq_cpu_data[c]
    /\ zcpu_mem[c] = "live"
    /\ \E rd \in reads :
          /\ zen_thermal_check_cpu_capped(c, rd, cap)
          /\ polled' = [cpu |-> c, rd |-> rd]
          /\ exPos' = ExampleNext(exPos, c, zen_read_temperature(rd))
    /\ UNCHANGED <<zen_freq_max_perf, hwVars, coreVars, policyVars, allocVars, targetVars,
                   readerVars, pubVars, threadVars, mx_pc, piVars>>

ThermalPollOn(c, reads) == ThermalPollCapped(c, reads, MaxThermalEvents)

ThermalPoll(c) == ThermalPollOn(c, SensorReads)

(***************************************************************************)
(* zen_voltage_verify_pstate.  ZEN_VID_TO_MV is computed in int and stored *)
(* in a u32: below zero it wraps to 2^32 + x, which is kept here as        *)
(* 2^31 - 1 + x, above every ceiling it is compared with.                  *)
(***************************************************************************)
ZEN_VID_TO_MV(vid) ==
    LET x == 1550 - (vid * 25) IN IF x >= 0 THEN x ELSE 2147483647 + x

zen_voltage_verify_pstate(ps, ceiling) ==
    LET mv == ZEN_VID_TO_MV(ps.vid) IN
    IF mv > ceiling
    THEN IF ps.boost /\ mv <= ZEN_VOLTAGE_BOOST_MAX
         THEN [ps |-> [ps EXCEPT !.voltage = mv], ret |-> TRUE]
         ELSE [ps |-> [ps EXCEPT !.voltage = mv, !.safe = FALSE], ret |-> FALSE]
    ELSE [ps |-> [ps EXCEPT !.voltage = mv, !.safe = TRUE], ret |-> TRUE]

\* a P-state as zen_freq_get_pstate_info leaves it in the kzalloc'ed core
\* state: no P-state is above the nominal frequency, so none is a boost state
FreshPstate(f) == [vid |-> TableVid(f), boost |-> FALSE, safe |-> FALSE, voltage |-> 0]

\* zen_voltage_check_all_pstates on a table
CheckedPstates(tbl, ceiling) ==
    [i \in DOMAIN tbl |-> zen_voltage_verify_pstate(FreshPstate(tbl[i]), ceiling)]

(***************************************************************************)
(* zen_freq_get_pstate_info: the range of a table.                         *)
(***************************************************************************)
MaxOf(tbl) == CHOOSE f \in {tbl[i] : i \in DOMAIN tbl} :
                  \A i \in DOMAIN tbl : tbl[i] <= f

MinOf(tbl) == CHOOSE f \in {tbl[i] : i \in DOMAIN tbl} :
                  \A i \in DOMAIN tbl : tbl[i] >= f

\* a struct zen_perf_target as kzalloc returns it, and a slot not allocated
ZeroTarget == [st |-> "live", desired_perf |-> 0, min_perf |-> 0, max_perf |-> 0,
               epp |-> 0, sequence |-> 0]
FreeSlot == [ZeroTarget EXCEPT !.st = "free"]

(***************************************************************************)
(* The state zen_freq_init_cpu leaves for the cores of set up, each with   *)
(* the table tbl[c]; the other cores are not brought under control.  The   *)
(* initial performance target of core c is in slot c.                      *)
(***************************************************************************)
InitCores(up, tbl) ==
    /\ zfreq_cpu_data = [c \in Cores |-> c \in up]
    /\ zcpu_mem = [c \in Cores |-> IF c \in up THEN "live" ELSE "none"]
    /\ table_mem = [c \in Cores |-> IF c \in up THEN "live" ELSE "none"]
    /\ perf_target = [c \in Cores |-> IF c \in up THEN c ELSE 0]
    /\ tgt = [s \in Slots |-> IF s \in up THEN ZeroTarget ELSE FreeSlot]
    /\ rcu_cbs = {}
    /\ thermal_state = [c \in Cores |-> "NORMAL"]
    /\ thermal_integral = [c \in Cores |-> 0]
    /\ thermal_throttle_perf = [c \in Cores |-> IF c \in up THEN 255 ELSE 0]
    /\ last_temp = [c \in Cores |-> 0]
    /\ thermal_events = [c \in Cores |-> 0]
    /\ lowest_perf = [c \in Cores |-> 0]
    /\ highest_perf = [c \in Cores |-> IF c \in up THEN 255 ELSE 0]
    /\ pstates = [c \in Cores |-> IF c \in up THEN tbl[c] ELSE << >>]
    /\ min_freq = [c \in Cores |-> IF c \in up THEN MinOf(tbl[c]) ELSE 0]
    /\ max_freq = [c \in Cores |-> IF c \in up THEN MaxOf(tbl[c]) ELSE 0]
    /\ cur_pstate = [c \in Cores |-> 0]
    /\ dynamic_epp = [c \in Cores |-> IF c \in up THEN ZEN_EPP_BALANCE ELSE 0]
    /\ nominal_freq = max_freq
    /\ io_boost_active = [c \in Cores |-> FALSE]
    /\ io_boost_expire = [c \in Cores |-> 0]
    /\ last_io_wait = [c \in Cores |-> 0]
    /\ io_boosts = [c \in Cores |-> 0]
    /\ util_low_since = [c \in Cores |-> 0]
    /\ cur_freq = [c \in Cores |-> 0]
    /\ ipi_pending = [c \in Cores |-> FALSE]
    /\ pstate_safe = [c \in Cores |->
           IF c \in up
           THEN [i \in DOMAIN tbl[c] |->
                    CheckedPstates(tbl[c], zen_freq_voltage_max)[i].ps.safe]
           ELSE << >>]
    /\ voltage_clamps = [c \in Cores |->
           IF c \in up
           THEN Cardinality({i \in DOMAIN tbl[c] :
                    ~CheckedPstates(tbl[c], zen_freq_voltage_max)[i].ret})
           ELSE 0]
    /\ policy_min = [c \in Cores |-> IF c \in up THEN MinOf(tbl[c]) ELSE 0]
    /\ policy_max = [c \in Cores |-> IF c \in up THEN MaxOf(tbl[c]) ELSE 0]

NoSeen == [state |-> "NORMAL", perf |-> 0, boost |-> FALSE]

NoSwitch == [cpu |-> 0, req |-> 0, cur |-> 0, best |-> 0, ret |-> 0, ok |-> FALSE,
             old_pstate |-> 0, pstate |-> 0, seen |-> NoSeen]

NoPstate == [st |-> "none", vid |-> 0, boost |-> FALSE, safe |-> FALSE, voltage |-> 0]

NoSample == [cpu |-> 0, io_wait |-> 0, util |-> 0, now |-> 0]

NoOnline == [pc |-> "idle", cpu |-> 0, new |-> 0, old |-> 0]

NoDef == [st |-> "none", val |-> 0]

NoInit == [cpu |-> 0, bank |-> << >>, fail |-> "none", ret |-> 0]

NoPoll == [cpu |-> 0, rd |-> [err |-> TRUE, valid |-> FALSE, temp |-> 0]]

\* no run of the PI controller on its own
InitNoPi == pi_temp = 0 /\ pi_integral = 0 /\ pi_out = << >>

\* no caller in the driver, the thermal thread at the top of its loop
InitCallers ==
    /\ rd_pc = [r \in Readers |-> "idle"]
    /\ rd_cpu = [r \in Readers |-> 0]
    /\ rd_target = [r \in Readers |-> 0]
    /\ rd_best = [r \in Readers |-> 0]
    /\ rd_uaf = FALSE
    /\ rd_req = [r \in Readers |-> 0]
    /\ rd_cur = [r \in Readers |-> 0]
    /\ rd_seen = [r \in Readers |-> NoSeen]
    /\ switched = NoSwitch
    /\ jiffies = 1
    /\ zen_freq_voltage_max = ZEN_VOLTAGE_MAX_SAFE
    /\ vps = NoPstate /\ vret = FALSE /\ vclamps = 0
    /\ sampled = NoSample
    /\ zen_freq_mode = ZEN_FREQ_MODE_BALANCE
    /\ update_lock = [c \in Cores |-> FALSE]
    /\ pdef = NoDef /\ pfreq = 0
    /\ inited = NoInit
    /\ low_run = [c \in Cores |-> 0]
    /\ transitions = [c \in Cores |-> 0]
    /\ onl = NoOnline
    /\ pub_pc = "idle" /\ pub_cpu = 0 /\ pub_new = 0 /\ pub_old = 0
    /\ oops = FALSE
    /\ tt_pc = "top" /\ tt_cpu = 0 /\ thermal_uaf = FALSE /\ should_stop = FALSE
    /\ mx_pc = "loaded"
    /\ InitNoPi
    /\ polled = NoPoll
    /\ exPos = 0

DefaultTable == <<3600000, 2800000, 2200000>>

InitThermal ==
    /\ zen_freq_max_perf = 255
    /\ InitCallers
    /\ InitCores({1}, [c \in Cores |-> DefaultTable])

NextThermal == \E c \in Cores : ThermalPoll(c)

SpecThermal == InitThermal /\ [][NextThermal]_vars

(***************************************************************************)
(* Claims about the thermal guard.                                         *)
(***************************************************************************)
\* the latest poll read a sample: no read error and the valid bit set
ValidSample == ~polled.rd.err /\ polled.rd.valid

\* the transition table of the thermal state machine, soft 80, hard 90,
\* hysteresis 3
TableNext(state, t) ==
    CASE state = "NORMAL" ->
            IF t >= 90 THEN "HARD_THROTTLE"
            ELSE IF t >= 80 THEN "SOFT_THROTTLE" ELSE "NORMAL"
      [] state = "SOFT_THROTTLE" ->
            IF t >= 90 THEN "HARD_THROTTLE"
            ELSE IF t < 80 - 3 THEN "RECOVERY" ELSE "SOFT_THROTTLE"
      [] state = "HARD_THROTTLE" ->
            IF t < 90 - 3 THEN "SOFT_THROTTLE" ELSE "HARD_THROTTLE"
      [] state = "RECOVERY" ->
            IF t < ZEN_THERMAL_SAFE_LIMIT THEN "NORMAL"
            ELSE IF t >= 80 THEN "SOFT_THROTTLE" ELSE "RECOVERY"

ExampleStates ==
    << {"NORMAL"}, {"SOFT_THROTTLE"}, {"HARD_THROTTLE"}, {"SOFT_THROTTLE"},
       {"RECOVERY", "SOFT_THROTTLE"}, {"NORMAL"} >>

ExampleFollowed == exPos >= 1 => thermal_state[1] \in ExampleStates[exPos]

\* C6 as stated: every poll that reads a valid sample moves the thermal state
\* of the polled core as the transition table says, and the samples
\* 70, 85, 95, 86, 76, 70 from Normal give Normal, Soft, Hard, Soft,
\* Recovery or Soft, Normal.
C6_TableOnValidSamples ==
    /\ [][ValidSample' =>
            thermal_state'[polled'.cpu] =
                TableNext(thermal_state[polled'.cpu], polled'.rd.temp)]_vars
    /\ []ExampleFollowed

\* C6 amended: the same for every valid sample other than 0; a valid sample
\* of 0 degrees is skipped like an invalid read and the state stays.
C6_TableOnNonzeroSamples ==
    /\ [][(ValidSample' /\ polled'.rd.temp # 0) =>
            thermal_state'[polled'.cpu] =
                TableNext(thermal_state[polled'.cpu], polled'.rd.temp)]_vars
    /\ [][(ValidSample' /\ polled'.rd.temp = 0) => UNCHANGED thermal_state]_vars
    /\ []ExampleFollowed

\* C6 witness: core 1 has taken the six samples of the example and is Normal
\* again.
C6_ExampleDone == exPos = Len(ExampleTemps) /\ thermal_state[1] = "NORMAL"

\* C8: a poll raises the throttle ceiling above its previous value only when
\* the sample is below soft limit - hysteresis, below hard limit - hysteresis
\* or below the fully-safe threshold.
C8_WidenedOnlyBelowThreshold ==
    [][\A c \in Cores :
          thermal_throttle_perf'[c] > thermal_throttle_perf[c] =>
              \/ polled'.rd.temp < zen_freq_soft_temp - ZEN_THERMAL_HYSTERESIS
              \/ polled'.rd.temp < zen_freq_hard_temp - ZEN_THERMAL_HYSTERESIS
              \/ polled'.rd.temp < ZEN_THERMAL_SAFE_LIMIT]_vars

\* C10: a poll whose sensor read is invalid (read error or valid bit clear)
\* leaves thermal state, ceiling, integral, last temperature and the
\* thermal-events counter as they were.
C10_InvalidReadChangesNothing ==
    [][(polled'.rd.err \/ ~polled'.rd.valid) => UNCHANGED thermalVars]_vars

\* C10 witness: core 1, throttling after a sample, has just polled a read
\* whose valid bit is clear.
C10_InvalidReadWhileThrottling ==
    /\ polled.cpu = 1
    /\ ~polled.rd.err /\ ~polled.rd.valid
    /\ thermal_state[1] = "SOFT_THROTTLE"
    /\ last_temp[1] = 85

(***************************************************************************)
(* The performance conversions.  The frequencies are unsigned int, so a    *)
(* difference below zero wraps to 2^32 + x before it is divided.           *)
(***************************************************************************)
WrappedDiv(x, m) ==
    LET A == 2147483647
        B == (2147483647 + x) + 1
    IN  (A \div m) + (B \div m) + (((A % m) + (B % m) + 1) \div m)

UDiv(x, m) == IF x >= 0 THEN x \div m ELSE WrappedDiv(x, m)

ZEN_PERF_TO_FREQ(perf, min_perf, max_perf, minf, maxf) ==
    minf + UDiv((maxf - minf) * (perf - min_perf), max_perf - min_perf)

ZEN_FREQ_TO_PERF(freq, minf, maxf, min_perf, max_perf) ==
    min_perf + UDiv((max_perf - min_perf) * (freq - minf), maxf - minf)

\* the divisor of ZEN_FREQ_TO_PERF is zero: the division raises a divide error
DivideError(c) == max_freq[c] = min_freq[c]

(***************************************************************************)
(* RCU.  A reader is inside its read-side critical section from            *)
(* rcu_read_lock to rcu_read_unlock.  kfree_rcu queues the object; it is   *)
(* freed once every reader that was inside a critical section when it was  *)
(* queued has left it.                                                     *)
(***************************************************************************)
InRegion == {r \in Readers : rd_pc[r] \in {"locked", "scanned", "held"}}

FreeSlots == {s \in Slots : tgt[s].st = "free"}

\* the allocator hands out the free slot of the lowest number
AllocSlot == CHOOSE s \in FreeSlots : \A t \in FreeSlots : s <= t

\* the synchronous variants of the retirement: kfree, and synchronize_rcu
\* followed by kfree
kfree_now(old) ==
    /\ tgt' = [tgt EXCEPT ![old] = FreeSlot]
    /\ UNCHANGED rcu_cbs

kfree_synchronized(old) ==
    /\ InRegion = {}
    /\ tgt' = [tgt EXCEPT ![old] = FreeSlot]
    /\ UNCHANGED rcu_cbs

kfree_rcu(old) ==
    /\ rcu_cbs' = rcu_cbs \cup {[slot |-> old, waits |-> InRegion]}
    /\ UNCHANGED tgt

\* the end of a grace period: a queued object no reader waits on is freed
RcuReclaim ==
    /\ \E cb \in rcu_cbs :
          /\ cb.waits = {}
          /\ tgt' = [tgt EXCEPT ![cb.slot] = FreeSlot]
          /\ rcu_cbs' = rcu_cbs \ {cb}
    /\ UNCHANGED <<zen_freq_max_perf, hwVars, thermalVars, coreVars, policyVars, allocVars,
                   perf_target, readerVars, pubVars, threadVars, mx_pc, piVars,
                   pollVars>>

(***************************************************************************)
(* zen_perf_target_update, in three steps: the allocation and filling of   *)
(* the new target, the swap of the pointer, the retirement of the old      *)
(* target.  GFP_ATOMIC allocation can fail, and then nothing is published. *)
(***************************************************************************)
\* variant: the installed target is overwritten in place
zen_perf_target_update_inplace(c, desired, min, max, epp) ==
    /\ tgt' = [tgt EXCEPT ![perf_target[c]] =
                  [st |-> "live", desired_perf |-> U8(desired),
                   min_perf |-> U8(min), max_perf |-> U8(max),
                   epp |-> U8(epp), sequence |-> cur_pstate[c] + 1]]
    /\ UNCHANGED <<pub_pc, pub_cpu, pub_new, pub_old>>

zen_perf_target_update(c, desired, min, max, epp) ==
    \/ UNCHANGED <<tgt, pub_pc, pub_cpu, pub_new, pub_old>>
    \/ /\ FreeSlots # {}
       /\ LET s == AllocSlot IN
          /\ tgt' = [tgt EXCEPT ![s] =
                        [st |-> "live", desired_perf |-> U8(desired),
                         min_perf |-> U8(min), max_perf |-> U8(max),
                         epp |-> U8(epp), sequence |-> cur_pstate[c] + 1]]
          /\ pub_new' = s
       /\ pub_pc' = "filled"
       /\ pub_cpu' = c
       /\ UNCHANGED pub_old

PublishSwap ==
    /\ pub_pc = "filled"
    /\ pub_old' = perf_target[pub_cpu]
    /\ perf_target' = [perf_target EXCEPT ![pub_cpu] = pub_new]
    /\ pub_pc' = "swapped"
    /\ UNCHANGED <<zen_freq_max_perf, hwVars, thermalVars, coreVars, policyVars, allocVars,
                   tgt, rcu_cbs, readerVars, pub_cpu, pub_new, oops, threadVars,
                   mx_pc, piVars, pollVars>>

PublishRetire ==
    /\ pub_pc = "swapped"
    /\ IF pub_old # 0 THEN kfree_rcu(pub_old) ELSE UNCHANGED <<tgt, rcu_cbs>>
    /\ pub_pc' = "idle"
    /\ pub_cpu' = 0
    /\ pub_new' = 0
    /\ pub_old' = 0
    /\ UNCHANGED <<zen_freq_max_perf, hwVars, thermalVars, coreVars, policyVars, allocVars,
                   perf_target, readerVars, oops, threadVars, mx_pc, piVars,
                   pollVars>>

(***************************************************************************)
(* zen_freq_verify_policy and zen_freq_set_policy: the cpufreq core        *)
(* verifies the requested bounds, stores them in the policy and hands the  *)
(* policy to the driver.                                                   *)
(***************************************************************************)
zen_freq_verify_policy(c, mn, mx) ==
    LET mn1 == IF mn < min_freq[c] THEN min_freq[c] ELSE mn
        mx1 == IF mx > max_freq[c] THEN max_freq[c] ELSE mx
    IN  [min |-> IF mn1 > mx1 THEN mx1 ELSE mn1, max |-> mx1]

zen_freq_set_policy(c, pmin, pmax) ==
    IF DivideError(c)
    THEN /\ oops' = TRUE
         /\ UNCHANGED <<tgt, pub_pc, pub_cpu, pub_new, pub_old>>
    ELSE /\ zen_perf_target_update(c,
                ZEN_FREQ_TO_PERF(pmax, min_freq[c], max_freq[c], 0, 255),
                ZEN_FREQ_TO_PERF(pmin, min_freq[c], max_freq[c], 0, 255),
                thermal_throttle_perf[c],
                dynamic_epp[c])
         /\ UNCHANGED oops

PolicyUpdateOn(c, freqs) ==
    /\ pub_pc = "idle"
    /\ zfreq_cpu_data[c]
    /\ zcpu_mem[c] = "live"
    /\ \E mn \in freqs, mx \in freqs :
          LET v == zen_freq_verify_policy(c, mn, mx) IN
          /\ policy_min' = [policy_min EXCEPT ![c] = v.min]
          /\ policy_max' = [policy_max EXCEPT ![c] = v.max]
          /\ zen_freq_set_policy(c, v.min, v.max)
    /\ UNCHANGED <<zen_freq_max_perf, hwVars, thermalVars, coreVars, allocVars,
                   perf_target, rcu_cbs, readerVars, threadVars, mx_pc, piVars,
                   pollVars>>

PolicyUpdate(c) == PolicyUpdateOn(c, PolicyFreqs)

(***************************************************************************)
(* zen_freq_fast_switch_lockless.  The frequency table holds the P-states  *)
(* in reverse order.                                                       *)
(***************************************************************************)
FreqTable(c) == [j \in 1..Len(pstates[c]) |-> pstates[c][Len(pstates[c]) + 1 - j]]

\* variant: the scan steps up to the first entry above the previous frequency
RECURSIVE ScanTable_stepup(_, _, _, _)
ScanTable_stepup(table, i, target_freq, best) ==
    IF i > Len(table) THEN best
    ELSE IF table[i] > best THEN table[i]
    ELSE ScanTable_stepup(table, i + 1, target_freq, best)

RECURSIVE ScanTable(_, _, _, _)
ScanTable(table, i, target_freq, best) ==
    IF i > Len(table) THEN best
    ELSE IF table[i] = target_freq THEN table[i]
    ELSE ScanTable(table, i + 1, target_freq,
                   IF table[i] <= target_freq /\ table[i] > best
                   THEN table[i] ELSE best)

\* variants: no thermal limit, no I/O boost
ApplyTarget_nocap(c, best) ==
    IF io_boost_active[c] /\ best < nominal_freq[c] THEN nominal_freq[c] ELSE best

ApplyTarget_noboost(c, best) ==
    LET limit_freq == ZEN_PERF_TO_FREQ(thermal_throttle_perf[c], lowest_perf[c],
                                       highest_perf[c], min_freq[c], max_freq[c])
    IN  IF thermal_state[c] # "NORMAL" /\ best > limit_freq THEN limit_freq ELSE best

\* best_freq after the thermal limit and the I/O boost
ApplyTarget(c, best) ==
    LET limit_freq == ZEN_PERF_TO_FREQ(thermal_throttle_perf[c], lowest_perf[c],
                                       highest_perf[c], min_freq[c], max_freq[c])
        capped == IF thermal_state[c] # "NORMAL" /\ best > limit_freq
                  THEN limit_freq ELSE best
    IN  IF io_boost_active[c] /\ capped < nominal_freq[c]
        THEN nominal_freq[c] ELSE capped

\* the P-state the final loop selects: the first one of frequency best, the
\* current one when there is none
FindPstate(c, best) ==
    LET hits == {i \in DOMAIN pstates[c] : pstates[c][i] = best}
    IN  IF hits = {} THEN cur_pstate[c]
        ELSE (CHOOSE i \in hits : \A j \in hits : i <= j) - 1

\* the caller's zcpu was freed under it: what it reads there is undefined, and
\* the model records the use and leaves the caller's locals as they are
Dangling(r) == zcpu_mem[rd_cpu[r]] = "freed"

readerFrame == <<zen_freq_max_perf, hwVars, thermalVars, policyVars, allocVars,
                 perf_target, tgt, pubVars, threadVars, mx_pc, piVars, pollVars>>

FastSwitchEnter(r, c) ==
    /\ rd_pc[r] = "idle"
    /\ zfreq_cpu_data[c]
    /\ rd_cpu' = [rd_cpu EXCEPT ![r] = c]
    /\ rd_pc' = [rd_pc EXCEPT ![r] = "locked"]
    /\ switched' = NoSwitch
    /\ UNCHANGED <<readerFrame, coreVars, rcu_cbs, rd_target, rd_best, rd_uaf,
                   rd_req, rd_cur, rd_seen>>

FastSwitchScanOn(r, freqs, curs) ==
    /\ rd_pc[r] = "locked"
    /\ IF Dangling(r)
       THEN rd_uaf' = TRUE /\ UNCHANGED <<rd_best, rd_req, rd_cur>>
       ELSE /\ \E target_freq \in freqs, cur \in curs :
                  /\ rd_req' = [rd_req EXCEPT ![r] = target_freq]
                  /\ rd_cur' = [rd_cur EXCEPT ![r] = cur]
                  /\ rd_best' = [rd_best EXCEPT ![r] =
                         ScanTable(FreqTable(rd_cpu[r]), 1, target_freq, cur)]
            /\ UNCHANGED rd_uaf
    /\ rd_pc' = [rd_pc EXCEPT ![r] = "scanned"]
    /\ UNCHANGED <<readerFrame, coreVars, rcu_cbs, rd_cpu, rd_target, rd_seen,
                   switched>>

FastSwitchTarget(r) ==
    /\ rd_pc[r] = "scanned"
    /\ IF Dangling(r)
       THEN rd_uaf' = TRUE /\ UNCHANGED <<rd_target, rd_best, rd_seen>>
       ELSE /\ rd_target' = [rd_target EXCEPT ![r] = perf_target[rd_cpu[r]]]
            /\ rd_seen' = [rd_seen EXCEPT ![r] =
                              [state |-> thermal_state[rd_cpu[r]],
                               perf |-> thermal_throttle_perf[rd_cpu[r]],
                               boost |-> io_boost_active[rd_cpu[r]]]]
            /\ rd_best' = [rd_best EXCEPT ![r] =
                              IF perf_target[rd_cpu[r]] # 0
                              THEN ApplyTarget(rd_cpu[r], @) ELSE @]
            /\ UNCHANGED rd_uaf
    /\ rd_pc' = [rd_pc EXCEPT ![r] = "held"]
    /\ UNCHANGED <<readerFrame, coreVars, rcu_cbs, rd_cpu, rd_req, rd_cur, switched>>

FastSwitchUnlock(r) ==
    /\ rd_pc[r] = "held"
    /\ rcu_cbs' = {[cb EXCEPT !.waits = @ \ {r}] : cb \in rcu_cbs}
    /\ rd_pc' = [rd_pc EXCEPT ![r] = "unlocked"]
    /\ UNCHANGED <<readerFrame, coreVars, rd_cpu, rd_target, rd_best, rd_uaf,
                   rd_req, rd_cur, rd_seen, switched>>

\* the final loop, the call of smp_call_function_single (which fails when
\* the core is offline) and the return
FastSwitchApplyOn(r, oks) ==
    /\ rd_pc[r] = "unlocked"
    /\ IF Dangling(r)
       THEN rd_uaf' = TRUE /\ UNCHANGED <<cur_pstate, ipi_pending, switched>>
       ELSE /\ \E ok \in oks :
                  LET c == rd_cpu[r]
                      p == FindPstate(c, rd_best[r])
                  IN  /\ cur_pstate' = [cur_pstate EXCEPT ![c] = p]
                      /\ ipi_pending' = [ipi_pending EXCEPT ![c] = @ \/ ok]
                      /\ switched' = [cpu |-> c, req |-> rd_req[r], cur |-> rd_cur[r],
                                      best |-> rd_best[r],
                                      ret |-> IF ok THEN rd_best[r] ELSE rd_cur[r],
                                      ok |-> ok, old_pstate |-> cur_pstate[c],
                                      pstate |-> p, seen |-> rd_seen[r]]
            /\ UNCHANGED rd_uaf
    /\ rd_pc' = [rd_pc EXCEPT ![r] = "idle"]
    /\ rd_cpu' = [rd_cpu EXCEPT ![r] = 0]
    /\ rd_target' = [rd_target EXCEPT ![r] = 0]
    /\ rd_best' = [rd_best EXCEPT ![r] = 0]
    /\ rd_req' = [rd_req EXCEPT ![r] = 0]
    /\ rd_cur' = [rd_cur EXCEPT ![r] = 0]
    /\ rd_seen' = [rd_seen EXCEPT ![r] = NoSeen]
    /\ UNCHANGED <<readerFrame, lowest_perf, highest_perf, pstates, min_freq,
                   max_freq, dynamic_epp, nominal_freq, io_boost_active,
                   io_boost_expire, last_io_wait, io_boosts, util_low_since,
                   cur_freq, pstate_safe, voltage_clamps, rcu_cbs>>

FastSwitchApply(r) == FastSwitchApplyOn(r, BOOLEAN)

\* what a call returns on a core, from the request, policy->cur and whether
\* the remote call could be queued
FastSwitchReturn(c, req, cur, ok) ==
    IF ok
    THEN LET best == ScanTable(FreqTable(c), 1, req, cur)
         IN  IF perf_target[c] # 0 THEN ApplyTarget(c, best) ELSE best
    ELSE cur

\* zen_write_pstate_local, run on the core by the queued call
RemoteWrite(c) ==
    /\ ipi_pending[c]
    /\ zcpu_mem[c] = "live"
    /\ ipi_pending' = [ipi_pending EXCEPT ![c] = FALSE]
    /\ cur_freq' = [cur_freq EXCEPT ![c] =
                       IF cur_pstate[c] < Len(pstates[c])
                       THEN pstates[c][cur_pstate[c] + 1] ELSE @]
    /\ UNCHANGED <<readerFrame, readerVars, lowest_perf, highest_perf, pstates,
                   min_freq, max_freq, cur_pstate, dynamic_epp, nominal_freq,
                   io_boost_active, io_boost_expire, last_io_wait, io_boosts,
                   util_low_since, pstate_safe, voltage_clamps, rcu_cbs>>

\* the requests and current frequencies the hot path is called with
SwitchFreqs == {2000000, 2500000, 2800000, 3600000}
CurFreqs == {0, 2200000, 3600000}

FastSwitchScan(r) == FastSwitchScanOn(r, SwitchFreqs, CurFreqs)

(***************************************************************************)
(* Publishing against concurrent hot-path readers on one core.             *)
(***************************************************************************)
InitRcu ==
    /\ zen_freq_max_perf = 255
    /\ InitCallers
    /\ InitCores({1}, [c \in Cores |-> DefaultTable])

NextRcu ==
    \/ PolicyUpdateOn(1, {3600000})
    \/ PublishSwap
    \/ PublishRetire
    \/ RcuReclaim
    \/ \E r \in Readers :
          \/ FastSwitchEnter(r, 1)
          \/ FastSwitchScanOn(r, {2800000}, {0})
          \/ FastSwitchTarget(r)
          \/ FastSwitchUnlock(r)
          \/ FastSwitchApplyOn(r, {TRUE})

SpecRcu == InitRcu /\ [][NextRcu]_vars

(***************************************************************************)
(* Claims about publishing and the hot path.                               *)
(***************************************************************************)
Holding(r) == rd_pc[r] = "held" /\ rd_target[r] # 0

Retired(s) == \E cb \in rcu_cbs : cb.slot = s

\* C1: a performance target that a reader obtained inside its read region is
\* not freed while that reader is still inside the region, whatever the
\* interleaving of the publish calls and the readers.
C1_HeldTargetNotFreed ==
    \A r \in Readers : Holding(r) => tgt[rd_target[r]].st = "live"

\* C1 witness: after successive publishes two readers hold two different
\* earlier snapshots, both retired and neither current.
C1_TwoSnapshotsHeld ==
    /\ Holding(1) /\ Holding(2)
    /\ rd_target[1] # rd_target[2]
    /\ Retired(rd_target[1]) /\ Retired(rd_target[2])
    /\ perf_target[1] \notin {rd_target[1], rd_target[2]}

\* C5: a publish call that has filled its new target can always install it
\* and then hand the old one to deferred reclamation, and a hot-path read
\* that has entered can always take its next step: neither waits for the
\* other.
C5_NeitherBlocksTheOther ==
    /\ pub_pc = "filled" => ENABLED PublishSwap
    /\ pub_pc = "swapped" => ENABLED PublishRetire
    /\ \A r \in Readers :
          /\ rd_pc[r] = "locked" => ENABLED FastSwitchScan(r)
          /\ rd_pc[r] = "scanned" => ENABLED FastSwitchTarget(r)
          /\ rd_pc[r] = "held" => ENABLED FastSwitchUnlock(r)
          /\ rd_pc[r] = "unlocked" => ENABLED FastSwitchApply(r)

\* C5 witness: a publish call has returned while a reader that took the old
\* target is still inside its read region, and the reclamation waits for it.
C5_PublishedPastReader ==
    /\ pub_pc = "idle"
    /\ \E r \in Readers :
          /\ Holding(r)
          /\ rd_target[r] # perf_target[rd_cpu[r]]
          /\ \E cb \in rcu_cbs : cb.slot = rd_target[r] /\ r \in cb.waits

(***************************************************************************)
(* zen_freq_exit_cpu: the per-core release.  The cpufreq core does not run *)
(* it while it runs zen_freq_set_policy on the same policy.                *)
(***************************************************************************)
ReleaseCore(c) ==
    /\ table_mem' = [table_mem EXCEPT ![c] = "freed"]
    /\ tgt' = [s \in Slots |-> IF s = perf_target[c] THEN FreeSlot ELSE tgt[s]]
    /\ zcpu_mem' = [zcpu_mem EXCEPT ![c] = "freed"]
    /\ zfreq_cpu_data' = [zfreq_cpu_data EXCEPT ![c] = FALSE]

zen_freq_exit_cpu(c) ==
    /\ mx_pc \in {"loaded", "unregister"}
    /\ zfreq_cpu_data[c]
    /\ pub_pc = "idle" \/ pub_cpu # c
    /\ ReleaseCore(c)
    /\ UNCHANGED <<zen_freq_max_perf, hwVars, thermalVars, coreVars, policyVars,
                   perf_target, rcu_cbs, readerVars, pubVars, threadVars, mx_pc,
                   piVars, pollVars>>

(***************************************************************************)
(* zen_thermal_thread: the test of kthread_should_stop, the load of the    *)
(* per-cpu pointer, the pass over the core.                                *)
(***************************************************************************)
ThreadNextCpu ==
    IF tt_cpu < NumCores
    THEN tt_cpu' = tt_cpu + 1 /\ tt_pc' = "load"
    ELSE tt_cpu' = 0 /\ tt_pc' = "top"

\* variant: the loop does not test kthread_should_stop
ThreadTop_nostop ==
    /\ tt_pc = "top"
    /\ tt_pc' = "load" /\ tt_cpu' = 1
    /\ UNCHANGED <<zen_freq_max_perf, hwVars, thermalVars, coreVars, policyVars, allocVars,
                   targetVars, readerVars, pubVars, thermal_uaf, should_stop,
                   mx_pc, piVars, pollVars>>

ThreadTop ==
    /\ tt_pc = "top"
    /\ IF should_stop
       THEN tt_pc' = "exited" /\ UNCHANGED tt_cpu
       ELSE tt_pc' = "load" /\ tt_cpu' = 1
    /\ UNCHANGED <<zen_freq_max_perf, hwVars, thermalVars, coreVars, policyVars, allocVars,
                   targetVars, readerVars, pubVars, thermal_uaf, should_stop,
                   mx_pc, piVars, pollVars>>

ThreadLoad ==
    /\ tt_pc = "load"
    /\ IF zfreq_cpu_data[tt_cpu]
       THEN tt_pc' = "check" /\ UNCHANGED tt_cpu
       ELSE ThreadNextCpu
    /\ UNCHANGED <<zen_freq_max_perf, hwVars, thermalVars, coreVars, policyVars, allocVars,
                   targetVars, readerVars, pubVars, thermal_uaf, should_stop,
                   mx_pc, piVars, pollVars>>

\* on a freed zcpu what the pass reads and writes is undefined: the model
\* records the use and leaves the state as it is
ThreadCheckOn(reads) ==
    /\ tt_pc = "check"
    /\ IF zcpu_mem[tt_cpu] = "freed"
       THEN /\ thermal_uaf' = TRUE
            /\ UNCHANGED <<thermalVars, pollVars>>
       ELSE /\ \E rd \in reads :
                  /\ zen_thermal_check_cpu(tt_cpu, rd)
                  /\ polled' = [cpu |-> tt_cpu, rd |-> rd]
                  /\ exPos' = ExampleNext(exPos, tt_cpu, zen_read_temperature(rd))
            /\ UNCHANGED thermal_uaf
    /\ ThreadNextCpu
    /\ UNCHANGED <<zen_freq_max_perf, hwVars, coreVars, policyVars, allocVars, targetVars,
                   readerVars, pubVars, should_stop, mx_pc, piVars>>

\* the reads of a cool package: an invalid one and a valid 70 degrees
QuietReads == [err : {FALSE}, valid : {FALSE, TRUE}, temp : {70}]

(***************************************************************************)
(* zen_freq_exit: cpufreq_unregister_driver, which has the cpufreq core    *)
(* call zen_freq_exit_cpu on every policy, then zen_thermal_guard_exit,    *)
(* whose kthread_stop returns when the thread has exited, then the loop    *)
(* that frees what is left.                                                *)
(***************************************************************************)
exitFrame == <<zen_freq_max_perf, hwVars, thermalVars, coreVars, policyVars, perf_target,
               rcu_cbs, readerVars, pubVars, tt_pc, tt_cpu, thermal_uaf, piVars,
               pollVars>>

ExitBegin ==
    /\ mx_pc = "loaded"
    /\ mx_pc' = "unregister"
    /\ UNCHANGED <<exitFrame, allocVars, tgt, should_stop>>

ExitStopThread ==
    /\ mx_pc = "unregister"
    /\ \A c \in Cores : ~zfreq_cpu_data[c]
    /\ should_stop' = TRUE
    /\ mx_pc' = "stopping"
    /\ UNCHANGED <<exitFrame, allocVars, tgt>>

ExitThreadJoined ==
    /\ mx_pc = "stopping"
    /\ tt_pc = "exited"
    /\ mx_pc' = "freeing"
    /\ UNCHANGED <<exitFrame, allocVars, tgt, should_stop>>

ExitFreeLoop ==
    /\ mx_pc = "freeing"
    /\ table_mem' = [c \in Cores |-> IF zfreq_cpu_data[c] THEN "freed" ELSE table_mem[c]]
    /\ zcpu_mem' = [c \in Cores |-> IF zfreq_cpu_data[c] THEN "freed" ELSE zcpu_mem[c]]
    /\ tgt' = [s \in Slots |->
                  IF \E c \in Cores : zfreq_cpu_data[c] /\ perf_target[c] = s
                  THEN FreeSlot ELSE tgt[s]]
    /\ zfreq_cpu_data' = [c \in Cores |-> FALSE]
    /\ mx_pc' = "unloaded"
    /\ UNCHANGED <<exitFrame, should_stop>>

InitTeardown ==
    /\ zen_freq_max_perf = 255
    /\ InitCallers
    /\ InitCores(Cores, [c \in Cores |-> DefaultTable])

NextTeardown ==
    \/ ThreadTop
    \/ ThreadLoad
    \/ ThreadCheckOn(QuietReads)
    \/ ExitBegin
    \/ ExitStopThread
    \/ ExitThreadJoined
    \/ ExitFreeLoop
    \/ \E c \in Cores : zen_freq_exit_cpu(c)
    \/ \E r \in Readers :
          \/ FastSwitchEnter(r, 1)
          \/ FastSwitchScanOn(r, {2800000}, {0})
          \/ FastSwitchTarget(r)
          \/ FastSwitchUnlock(r)
          \/ FastSwitchApplyOn(r, {TRUE})

SpecTeardown == InitTeardown /\ [][NextTeardown]_vars

(***************************************************************************)
(* Claims about teardown.                                                  *)
(***************************************************************************)
\* C3 as stated: zen_thermal_check_cpu never runs on a core state that has
\* been freed (which it could not if the thermal thread had exited before the
\* first per-core state is freed).
C3_ThermalPassNeverOnFreedCore == ~thermal_uaf

\* C4 as stated: while a hot-path reader is inside its read region the core
\* state, the frequency table and the performance target it took are not
\* freed.
C4_NoFreeUnderReader ==
    \A r \in InRegion :
        /\ zcpu_mem[rd_cpu[r]] = "live"
        /\ table_mem[rd_cpu[r]] = "live"
        /\ Holding(r) => tgt[rd_target[r]].st = "live"

(***************************************************************************)
(* Policy updates on a core whose thermal guard is polling, for either     *)
(* value of the max_perf parameter and either table.  A policy update     *)
(* arrives after the grace period of the one before it.                    *)
(***************************************************************************)
InitPolicy ==
    /\ zen_freq_max_perf \in MaxPerfParams
    /\ InitCallers
    /\ \E t \in Tables : InitCores({1}, [c \in Cores |-> t])

NextPolicy ==
    \/ \E c \in Cores : ThermalPollOn(c, CoarseReads)
    \/ \E c \in Cores : rcu_cbs = {} /\ PolicyUpdate(c)
    \/ PublishSwap
    \/ PublishRetire
    \/ RcuReclaim

SpecPolicy == InitPolicy /\ [][NextPolicy]_vars

\* C2 as stated: the current performance target of every core satisfies
\* min_perf <= desired_perf <= max_perf, with min_perf and max_perf inside
\* [lowest_perf, highest_perf] of the core.
C2_PublishedTargetOrdered ==
    \A c \in Cores :
        zfreq_cpu_data[c] /\ perf_target[c] # 0 =>
            LET t == tgt[perf_target[c]] IN
            /\ t.min_perf <= t.desired_perf
            /\ t.desired_perf <= t.max_perf
            /\ lowest_perf[c] <= t.min_perf /\ t.min_perf <= highest_perf[c]
            /\ lowest_perf[c] <= t.max_perf /\ t.max_perf <= highest_perf[c]

\* C7 as stated: the thermal throttle ceiling of every core is at most the
\* configured maximum performance.
C7_CeilingWithinConfiguredMax ==
    \A c \in Cores : zfreq_cpu_data[c] => thermal_throttle_perf[c] <= zen_freq_max_perf

(***************************************************************************)
(* The PI controller on its own, polled under a sustained temperature.     *)
(***************************************************************************)
InitPI ==
    /\ zen_freq_max_perf = 255
    /\ InitCallers
    /\ InitCores({1}, [c \in Cores |-> DefaultTable])

PiStart ==
    /\ pi_temp = 0
    /\ pi_temp' \in PiTemps
    /\ UNCHANGED <<zen_freq_max_perf, hwVars, thermalVars, coreVars, policyVars, allocVars,
                   targetVars, readerVars, pubVars, threadVars, mx_pc, pi_integral,
                   pi_out, pollVars>>

PiPoll ==
    /\ pi_temp # 0
    /\ Len(pi_out) < MaxPiPolls
    /\ LET r == zen_thermal_pi_controller(pi_integral, pi_temp) IN
          /\ pi_integral' = r.integral
          /\ pi_out' = Append(pi_out, r.max_perf)
    /\ UNCHANGED <<zen_freq_max_perf, hwVars, thermalVars, coreVars, policyVars, allocVars,
                   targetVars, readerVars, pubVars, threadVars, mx_pc, pi_temp,
                   pollVars>>

NextPI == PiStart \/ PiPoll

SpecPI == InitPI /\ [][NextPI]_vars

\* C9 as stated: under a sustained error of +10 degrees the ceilings returned
\* poll after poll are strictly decreasing until they stay at one value, and
\* the integral accumulator stays within the anti-windup bound.
C9_StrictlyDecreasingThenStable ==
    pi_temp = zen_freq_soft_temp + 10 =>
        /\ \A i \in 1..(Len(pi_out) - 1) :
              \/ pi_out[i + 1] < pi_out[i]
              \/ \A j \in i..Len(pi_out) : pi_out[j] = pi_out[i]
        /\ pi_integral <= ZEN_THERMAL_INTEGRAL_MAX
        /\ pi_integral >= -ZEN_THERMAL_INTEGRAL_MAX

(***************************************************************************)
(* The utilization callback: zen_io_boost_check and zen_epp_update_dynamic *)
(* (epp and mode at their defaults: enabled, balance).  The I/O wait a     *)
(* core has accumulated never decreases.                                   *)
(***************************************************************************)
\* the switch on zen_freq_mode of zen_epp_update_dynamic
ModeEpp(mode) ==
    IF mode = ZEN_FREQ_MODE_POWERSAVE THEN ZEN_EPP_POWERSAVE
    ELSE IF mode = ZEN_FREQ_MODE_PERFORMANCE THEN ZEN_EPP_PERFORMANCE
    ELSE ZEN_EPP_BALANCE

msecs_to_jiffies(m) == ((m * HZ) + 999) \div 1000

time_after(a, b) == b - a < 0

\* a - b in u64: when a < b the difference wraps to 2^64 + (a - b), which is
\* kept here as a value of the same order above every threshold
U64Diff(a, b) == LET x == a - b IN IF x >= 0 THEN x ELSE 2147483647 + x

\* variants: the threshold is inclusive; the expiry is not looked at
zen_io_boost_check_ge(c, io_wait) ==
    LET now == jiffies
        delta == U64Diff(io_wait, last_io_wait[c])
        jump == delta >= NSEC_PER_USEC * 100
        expire == IF jump THEN now + msecs_to_jiffies(ZEN_IO_BOOST_DURATION_MS)
                  ELSE io_boost_expire[c]
        active == jump \/ io_boost_active[c]
    IN  /\ last_io_wait' = [last_io_wait EXCEPT ![c] = io_wait]
        /\ io_boost_expire' = [io_boost_expire EXCEPT ![c] = expire]
        /\ io_boosts' = [io_boosts EXCEPT ![c] = IF jump THEN @ + 1 ELSE @]
        /\ io_boost_active' = [io_boost_active EXCEPT ![c] =
                                  active /\ ~time_after(now, expire)]

zen_io_boost_check_noexpire(c, io_wait) ==
    LET now == jiffies
        delta == U64Diff(io_wait, last_io_wait[c])
        jump == delta > NSEC_PER_USEC * 100
        expire == IF jump THEN now + msecs_to_jiffies(ZEN_IO_BOOST_DURATION_MS)
                  ELSE io_boost_expire[c]
    IN  /\ last_io_wait' = [last_io_wait EXCEPT ![c] = io_wait]
        /\ io_boost_expire' = [io_boost_expire EXCEPT ![c] = expire]
        /\ io_boosts' = [io_boosts EXCEPT ![c] = IF jump THEN @ + 1 ELSE @]
        /\ io_boost_active' = [io_boost_active EXCEPT ![c] = jump \/ @]

zen_io_boost_check(c, io_wait) ==
    LET now == jiffies
        delta == U64Diff(io_wait, last_io_wait[c])
        jump == delta > NSEC_PER_USEC * 100
        expire == IF jump THEN now + msecs_to_jiffies(ZEN_IO_BOOST_DURATION_MS)
                  ELSE io_boost_expire[c]
        active == jump \/ io_boost_active[c]
    IN  /\ last_io_wait' = [last_io_wait EXCEPT ![c] = io_wait]
        /\ io_boost_expire' = [io_boost_expire EXCEPT ![c] = expire]
        /\ io_boosts' = [io_boosts EXCEPT ![c] = IF jump THEN @ + 1 ELSE @]
        /\ io_boost_active' = [io_boost_active EXCEPT ![c] =
                                  active /\ ~time_after(now, expire)]

\* variant: the mode is not looked at
zen_epp_update_dynamic_balance(c, util) ==
    LET now == jiffies
        low == util < ZEN_UTIL_LOW_THRESHOLD
        since == util_low_since[c]
        elapsed == low /\ since # 0 /\
                   time_after(now, since + msecs_to_jiffies(ZEN_EPP_LOW_UTIL_DELAY_MS))
        new_epp == IF elapsed THEN ZEN_EPP_POWERSAVE
                   ELSE IF util > ZEN_UTIL_HIGH_THRESHOLD THEN ZEN_EPP_PERFORMANCE
                   ELSE ZEN_EPP_BALANCE
    IN  /\ util_low_since' = [util_low_since EXCEPT ![c] =
                                 IF ~low THEN 0 ELSE IF since = 0 THEN now ELSE since]
        /\ dynamic_epp' = [dynamic_epp EXCEPT ![c] = new_epp]

\* variant: the low-utilization timer is taken as elapsed at once
zen_epp_update_dynamic_nodelay(c, util) ==
    LET now == jiffies
        low == util < ZEN_UTIL_LOW_THRESHOLD
        since == util_low_since[c]
        new_epp == IF low /\ since # 0 THEN ZEN_EPP_POWERSAVE
                   ELSE IF util > ZEN_UTIL_HIGH_THRESHOLD THEN ZEN_EPP_PERFORMANCE
                   ELSE ModeEpp(zen_freq_mode)
    IN  /\ util_low_since' = [util_low_since EXCEPT ![c] =
                                 IF ~low THEN 0 ELSE IF since = 0 THEN now ELSE since]
        /\ dynamic_epp' = [dynamic_epp EXCEPT ![c] = new_epp]

zen_epp_update_dynamic(c, util) ==
    LET now == jiffies
        low == util < ZEN_UTIL_LOW_THRESHOLD
        since == util_low_since[c]
        elapsed == low /\ since # 0 /\
                   time_after(now, since + msecs_to_jiffies(ZEN_EPP_LOW_UTIL_DELAY_MS))
        new_epp == IF elapsed THEN ZEN_EPP_POWERSAVE
                   ELSE IF util > ZEN_UTIL_HIGH_THRESHOLD THEN ZEN_EPP_PERFORMANCE
                   ELSE ModeEpp(zen_freq_mode)
    IN  /\ util_low_since' = [util_low_since EXCEPT ![c] =
                                 IF ~low THEN 0 ELSE IF since = 0 THEN now ELSE since]
        /\ dynamic_epp' = [dynamic_epp EXCEPT ![c] = new_epp]

UtilSampleOn(c, deltas, utils) ==
    /\ zfreq_cpu_data[c]
    /\ zcpu_mem[c] = "live"
    /\ \E d \in deltas, util \in utils :
          /\ last_io_wait[c] + d >= 0
          /\ last_io_wait[c] + d <= MaxIoWait
          /\ zen_io_boost_check(c, last_io_wait[c] + d)
          /\ zen_epp_update_dynamic(c, util)
          /\ sampled' = [cpu |-> c, io_wait |-> last_io_wait[c] + d, util |-> util,
                          now |-> jiffies]
          /\ low_run' = [low_run EXCEPT ![c] =
                            IF util >= ZEN_UTIL_LOW_THRESHOLD THEN 0
                            ELSE IF @ = 0 THEN jiffies ELSE @]
    /\ UNCHANGED <<zen_freq_max_perf, jiffies, zen_freq_voltage_max, vps, vret,
                   vclamps, initVars, transitions, onl, thermalVars, policyVars, allocVars,
                   perf_target, tgt,
                   pubVars, threadVars, mx_pc, piVars, pollVars,
                   readerVars, lowest_perf, highest_perf, pstates,
                   min_freq, max_freq, cur_pstate, nominal_freq, cur_freq,
                   ipi_pending, pstate_safe, voltage_clamps, rcu_cbs>>

UtilSample(c) == UtilSampleOn(c, IoWaitDeltas, UtilSamples)

\* the timer interrupt: jiffies advances by one of steps, up to max
TickOn(steps, max) ==
    /\ \E d \in steps :
          /\ jiffies + d <= max
          /\ jiffies' = jiffies + d
    /\ UNCHANGED <<zen_freq_max_perf, zen_freq_voltage_max, vps, vret, vclamps,
                   sampled, newVars, thermalVars, coreVars, policyVars, allocVars, targetVars,
                   readerVars, pubVars, threadVars, mx_pc, piVars, pollVars>>

Tick == TickOn({1}, MaxJiffies)

(***************************************************************************)
(* The hot path of one core, called with every request and previously      *)
(* active frequency, while the thermal guard polls and I/O wait jumps.     *)
(***************************************************************************)
\* the valid samples of a package that is cool, at the soft limit or over
\* the hard limit
HotReads == [err : {FALSE}, valid : {TRUE}, temp : {70, 80, 95}]

InitSelect ==
    /\ zen_freq_max_perf = 255
    /\ InitCallers
    /\ InitCores({1}, [c \in Cores |-> DefaultTable])

NextSelect ==
    \/ FastSwitchEnter(1, 1)
    \/ FastSwitchScan(1)
    \/ FastSwitchTarget(1)
    \/ FastSwitchUnlock(1)
    \/ FastSwitchApply(1)
    \/ switched = NoSwitch /\ ThermalPollOn(1, HotReads)
    \/ switched = NoSwitch /\ UtilSampleOn(1, {0, 150000}, {50})

SpecSelect == InitSelect /\ [][NextSelect]_vars

(***************************************************************************)
(* Claims about the hot path.                                              *)
(***************************************************************************)
\* the table entries not above a request, and the greatest member of a set
NotAbove(c, req) == {f \in {pstates[c][i] : i \in DOMAIN pstates[c]} : f <= req}

Greatest(S) == CHOOSE f \in S : \A g \in S : g <= f

\* the frequency of a throttle ceiling, by linear interpolation
CeilingFreq(c, perf) ==
    min_freq[c] + ((max_freq[c] - min_freq[c]) * (perf - lowest_perf[c]))
                      \div (highest_perf[c] - lowest_perf[c])

\* C11 as stated: the scan of the hot path selects the table frequency closest
\* to the request and not above it, whenever the table has an entry not above
\* the request, whatever the previously active frequency.
C11_ClosestNotAboveRequest ==
    \A r \in Readers :
        rd_pc[r] = "scanned" /\ ~rd_uaf /\ NotAbove(rd_cpu[r], rd_req[r]) # {} =>
            rd_best[r] = Greatest(NotAbove(rd_cpu[r], rd_req[r]))

\* C12 as stated: when the thermal state a call read is not Normal and the
\* I/O boost it read is inactive, the frequency it returns is at most the
\* frequency of the throttle ceiling it read.
C12_ReturnWithinCeiling ==
    switched.cpu # 0 /\ switched.seen.state # "NORMAL" /\ ~switched.seen.boost =>
        switched.ret <= CeilingFreq(switched.cpu, switched.seen.perf)

\* C12 amended: when the hot path reads a thermal state that is not Normal and
\* an inactive I/O boost, the frequency it selects is at most the frequency of
\* the ceiling it reads, and that selection is what it returns when the remote
\* call was queued.
C12_SelectionWithinCeilingRead ==
    [][\A r \in Readers :
          /\ (/\ rd_pc[r] = "scanned" /\ rd_pc'[r] = "held" /\ ~rd_uaf'
              /\ thermal_state[rd_cpu[r]] # "NORMAL"
              /\ ~io_boost_active[rd_cpu[r]])
             => rd_best'[r] <= CeilingFreq(rd_cpu[r], thermal_throttle_perf[rd_cpu[r]])
          /\ (rd_pc[r] = "unlocked" /\ rd_pc'[r] = "idle" /\ switched'.ok)
             => switched'.ret = rd_best[r]]_vars

\* C12 witness: under the hard throttle a request for the highest frequency
\* has been cut down to the frequency of the ceiling.
C12_RequestCapped ==
    /\ rd_pc[1] = "held" /\ rd_req[1] = 3600000 /\ rd_best[1] = 2200000
    /\ rd_seen[1] = [state |-> "HARD_THROTTLE", perf |-> 0, boost |-> FALSE]

\* C13: with the I/O boost flag active and the capped frequency below the
\* nominal frequency the hot path raises the result to the nominal frequency;
\* otherwise it leaves the capped frequency as it is.
C13_BoostRaisesToNominal ==
    [][\A r \in Readers :
          (rd_pc[r] = "scanned" /\ rd_pc'[r] = "held" /\ ~rd_uaf'
           /\ perf_target[rd_cpu[r]] # 0) =>
             LET c == rd_cpu[r]
                 limit == CeilingFreq(c, thermal_throttle_perf[c])
                 capped == IF thermal_state[c] # "NORMAL" /\ rd_best[r] > limit
                           THEN limit ELSE rd_best[r]
             IN  rd_best'[r] = IF io_boost_active[c] /\ capped < nominal_freq[c]
                               THEN nominal_freq[c] ELSE capped]_vars

\* C13 witness: with the boost active a request below the nominal frequency
\* has been raised to the nominal frequency.
C13_RaisedToNominal ==
    /\ rd_pc[1] = "held" /\ rd_req[1] = 2500000 /\ rd_cur[1] = 0
    /\ rd_seen[1].boost /\ rd_best[1] = nominal_freq[1]

\* C14 as stated: a frequency the hot path reports as applied is the frequency
\* of the P-state it wrote to the core.
C14_ReportedIsApplied ==
    switched.cpu # 0 /\ switched.ok /\ switched.ret # 0 =>
        switched.ret = pstates[switched.cpu][switched.pstate + 1]

\* C15 as stated: when the remote call cannot be queued the hot path returns
\* the previously active frequency and the current P-state index is what it
\* was before the call.
C15_FailedApplyKeepsIndex ==
    switched.cpu # 0 /\ ~switched.ok =>
        /\ switched.ret = switched.cur
        /\ switched.pstate = switched.old_pstate

\* C16: a second call with the same request, made in the same state and
\* seeing as previously active frequency what the first call returned, returns
\* the same frequency.
C16_Idempotent ==
    \A c \in Cores :
        zfreq_cpu_data[c] =>
            \A req \in SwitchFreqs, cur \in CurFreqs, ok \in BOOLEAN :
                FastSwitchReturn(c, req, FastSwitchReturn(c, req, cur, ok), ok)
                    = FastSwitchReturn(c, req, cur, ok)

\* C16 witness: a call under the hard throttle has returned the frequency of
\* the ceiling for a request of the highest frequency, the previously active
\* one being another.
C16_CallChangedFrequency ==
    /\ switched.cpu # 0 /\ switched.ok
    /\ switched.req = 3600000 /\ switched.cur = 3600000 /\ switched.ret = 2200000
    /\ switched.seen.state = "HARD_THROTTLE"
    /\ switched.seen.state = thermal_state[switched.cpu]
    /\ switched.seen.perf = thermal_throttle_perf[switched.cpu]
    /\ switched.seen.boost = io_boost_active[switched.cpu]
    /\ FastSwitchReturn(switched.cpu, switched.req, switched.cur, TRUE) = switched.ret

\* C20 as stated: while a core has a P-state marked safe, the hot path does
\* not apply a P-state marked unsafe.
C20_NeverAppliesUnsafePoint ==
    switched.cpu # 0 /\ switched.ok
                     /\ switched.ret = pstates[switched.cpu][switched.pstate + 1]
                     /\ (\E i \in DOMAIN pstate_safe[switched.cpu] :
                            pstate_safe[switched.cpu][i]) =>
        pstate_safe[switched.cpu][switched.pstate + 1]

(***************************************************************************)
(* The I/O boost of one core: utilization samples arrive as the clock      *)
(* ticks, the hot path runs between them and its remote write lands.       *)
(***************************************************************************)
InitBoost ==
    /\ zen_freq_max_perf = 255
    /\ InitCallers
    /\ InitCores({1}, [c \in Cores |-> DefaultTable])

NextBoost ==
    \/ UtilSample(1)
    \/ Tick
    \/ FastSwitchEnter(1, 1)
    \/ FastSwitchScanOn(1, {2500000}, {0})
    \/ FastSwitchTarget(1)
    \/ FastSwitchUnlock(1)
    \/ FastSwitchApplyOn(1, {TRUE})
    \/ RemoteWrite(1)

SpecBoost == InitBoost /\ [][NextBoost]_vars

\* the step is a utilization sample of core c
IsSample(c) == sampled' # sampled /\ sampled'.cpu = c

voltageFrame == <<zen_freq_max_perf, jiffies, sampled, newVars, thermalVars, coreVars,
                  policyVars, allocVars, targetVars, readerVars, pubVars,
                  threadVars, mx_pc, piVars, pollVars>>

\* voltage_max_store: values outside 1000..1600 are refused
voltage_max_store(val) ==
    IF val < 1000 \/ val > 1600
    THEN UNCHANGED zen_freq_voltage_max
    ELSE zen_freq_voltage_max' = val

VoltageMaxStore ==
    /\ \E val \in VoltageCeilings : voltage_max_store(val)
    /\ UNCHANGED <<voltageFrame, vps, vret, vclamps>>

VoltagePick ==
    /\ vps.st # "fresh"
    /\ \E vid \in VidFields, boost \in BOOLEAN :
          vps' = [st |-> "fresh", vid |-> vid, boost |-> boost, safe |-> FALSE,
                  voltage |-> 0]
    /\ UNCHANGED <<voltageFrame, zen_freq_voltage_max, vret, vclamps>>

\* one pass of the loop of zen_voltage_check_all_pstates
VoltageVerify ==
    /\ vps.st = "fresh"
    /\ LET r == zen_voltage_verify_pstate(vps, zen_freq_voltage_max)
       IN  /\ ~r.ret => vclamps < MaxClamps
           /\ vps' = [r.ps EXCEPT !.st = "verified"]
           /\ vret' = r.ret
           /\ vclamps' = IF r.ret THEN vclamps ELSE vclamps + 1
    /\ UNCHANGED <<voltageFrame, zen_freq_voltage_max>>

InitVoltage ==
    /\ zen_freq_max_perf = 255
    /\ InitCallers
    /\ InitCores({1}, [c \in Cores |-> DefaultTable])

NextVoltage ==
    \/ VoltageMaxStore
    \/ VoltagePick
    \/ VoltageVerify

SpecVoltage == InitVoltage /\ [][NextVoltage]_vars

PSTATE_DEF_DID(val) == (val \div 64) % 32

PSTATE_DEF_FID(val) == val % 64

PSTATE_DEF_VID(val) == (val \div 2048) % 256

\* bits 4 and 5 of the value, which PSTATE_DEF_FID takes as well
PSTATE_DEF_CUR_DIV(val) == (val \div 16) % 4

zen_freq_calc_freq_from_pstate(pstate_val) ==
    LET did == PSTATE_DEF_DID(pstate_val)
        fid == PSTATE_DEF_FID(pstate_val)
        div == PSTATE_DEF_CUR_DIV(pstate_val)
        undivided == IF did = 0 THEN fid * ZEN_FREQ_BASE
                     ELSE (fid * ZEN_FREQ_BASE * 4) \div (did + 4)
        freq_mhz == IF div > 0 THEN undivided \div (2 ^ (div - 1)) ELSE undivided
    IN  freq_mhz * ZEN_FREQ_MULTIPLIER

\* every frequency id a definition can hold
FidFields == 0..63

\* divisor ids handed to the decoder: none, the smallest, the one of the
\* example and the largest the field holds
DidFields == {0, 1, 8, 31}

\* the MSR value that holds frequency id fid and divisor id did
RawDef(fid, did) == fid + 64 * did

decodeFrame == <<zen_freq_max_perf, jiffies, zen_freq_voltage_max, vps, vret, vclamps,
                 sampled, zen_freq_mode, update_lock, inited, low_run, transitions, onl,
                 thermalVars,
                 coreVars,
                 policyVars, allocVars, targetVars, readerVars, pubVars, threadVars,
                 mx_pc, piVars, pollVars>>

\* a caller reads a P-state definition MSR
DecodePick ==
    /\ \E fid \in FidFields, did \in DidFields :
          pdef' = [st |-> "read", val |-> RawDef(fid, did)]
    /\ pfreq' = 0
    /\ UNCHANGED decodeFrame

\* and decodes it
Decode ==
    /\ pdef.st = "read"
    /\ pfreq' = zen_freq_calc_freq_from_pstate(pdef.val)
    /\ pdef' = [pdef EXCEPT !.st = "decoded"]
    /\ UNCHANGED decodeFrame

InitDecode ==
    /\ zen_freq_max_perf = 255
    /\ InitCallers
    /\ InitCores({1}, [c \in Cores |-> DefaultTable])

NextDecode == DecodePick \/ Decode

SpecDecode == InitDecode /\ [][NextDecode]_vars

\* C21: the frequency decoded from a definition with frequency id fid is
\* 25 * fid MHz when the divisor id is 0 and 25 * fid * 4 / (did + 4) MHz
\* when it is did > 0, in kHz, for every fid in 0..63
C21_DecodedByFidAndDid ==
    pdef.st = "decoded" =>
        LET fid == PSTATE_DEF_FID(pdef.val)
            did == PSTATE_DEF_DID(pdef.val)
        IN  pfreq = IF did = 0 THEN 25 * fid * 1000
                    ELSE ((25 * fid * 4) \div (did + 4)) * 1000

(***************************************************************************)
(* The dynamic tuner on its own: utilization samples of core 1 half a      *)
(* second apart and more, and the operator writing the mode attribute.     *)
(***************************************************************************)
\* the last jiffy of a run of the tuner
MaxEppJiffies == 78

\* jiffies between two samples: a quarter of a second, and one jiffy more
EppSteps == {25, 26}

\* what the operator writes to the mode attribute: a mode name, or a number
ModeWrites == {[name |-> "powersave", num |-> 0], [name |-> "balance", num |-> 0],
               [name |-> "performance", num |-> 0], [name |-> "", num |-> 3],
               [name |-> "", num |-> 7]}

\* the value mode_store leaves in zen_freq_mode; a number is stored before
\* it is compared with ZEN_FREQ_MODE_USERSPACE
mode_store(buf) ==
    IF buf.name = "powersave" THEN ZEN_FREQ_MODE_POWERSAVE
    ELSE IF buf.name = "balance" THEN ZEN_FREQ_MODE_BALANCE
    ELSE IF buf.name = "performance" THEN ZEN_FREQ_MODE_PERFORMANCE
    ELSE buf.num

ModeStore ==
    /\ \E buf \in ModeWrites : zen_freq_mode' = mode_store(buf)
    /\ UNCHANGED <<zen_freq_max_perf, jiffies, zen_freq_voltage_max, vps, vret, vclamps,
                   sampled, update_lock, pdef, pfreq, inited, low_run, transitions, onl,
                 thermalVars,
                   coreVars, policyVars, allocVars, targetVars, readerVars, pubVars,
                   threadVars, mx_pc, piVars, pollVars>>

InitEpp ==
    /\ zen_freq_max_perf = 255
    /\ InitCallers
    /\ InitCores({1}, [c \in Cores |-> DefaultTable])

NextEpp ==
    \/ UtilSampleOn(1, {0}, UtilSamples)
    \/ TickOn(EppSteps, MaxEppJiffies)
    \/ ModeStore

SpecEpp == InitEpp /\ [][NextEpp]_vars

\* the latest sample of core c was below the low threshold, in a run of such
\* samples that began more than 500 ms before it
LowForLonger(c) ==
    /\ sampled'.util < 10
    /\ low_run[c] # 0
    /\ (sampled'.now - low_run[c]) * 1000 > 500 * HZ

\* C25 as stated: a sample switches the preference to power-saving only when
\* the samples have been below the low threshold for longer than 500 ms since
\* the first of them
C25_PowersaveOnlyAfterDelay ==
    [][IsSample(1) /\ dynamic_epp'[1] = 255 /\ dynamic_epp[1] # 255
          => LowForLonger(1)]_vars

\* C25, amended: a sample switches the preference to power-saving only when
\* the samples have been below the low threshold for longer than 500 ms since
\* the first of them, or when the mode is powersave and the sample is not
\* above the high threshold; a sample after such a run always leaves
\* power-saving; a sample at or above the low threshold clears the tracked
\* time and the next sample below it starts the delay again
C25_PowersaveAfterDelayOrByMode ==
    [][IsSample(1) =>
          /\ dynamic_epp'[1] = 255 /\ dynamic_epp[1] # 255
                => \/ LowForLonger(1)
                   \/ zen_freq_mode = 0 /\ sampled'.util <= 80
          /\ LowForLonger(1) => dynamic_epp'[1] = 255
          /\ sampled'.util >= 10 => util_low_since'[1] = 0
          /\ sampled'.util < 10 /\ low_run[1] = 0 => util_low_since'[1] = sampled'.now]_vars

\* power-saving set in mode balance by the third sample of a run of low
\* samples, 520 ms after the first
C25_SwitchedAfterDelay ==
    /\ zen_freq_mode = 1
    /\ dynamic_epp[1] = 255
    /\ sampled.cpu = 1 /\ sampled.util < 10
    /\ low_run[1] # 0 /\ sampled.now - low_run[1] = 52

\* C26: a sample above 80% sets the performance code whatever the timer; a
\* sample from 10% to 80% sets the code of the mode (powersave 255,
\* performance 0, any other mode 128); the tuner writes nothing but the
\* preference and the tracked time
C26_HighAndMidSamples ==
    [][IsSample(1) =>
          /\ sampled'.util > 80 => dynamic_epp'[1] = 0
          /\ sampled'.util >= 10 /\ sampled'.util <= 80 =>
                dynamic_epp'[1] = (CASE zen_freq_mode = 0 -> 255
                                     [] zen_freq_mode = 2 -> 0
                                     [] OTHER -> 128)
          /\ \A c \in Cores \ {1} : dynamic_epp'[c] = dynamic_epp[c]]_vars

\* a sample between the thresholds, taken in mode performance after the
\* first jiffy, set the performance code
C26_ModeFollowed ==
    /\ sampled.cpu = 1 /\ sampled.util = 50
    /\ zen_freq_mode = 2 /\ dynamic_epp[1] = 0
    /\ jiffies > 1

\* C29: a poll that finds a core in Recovery and leaves it there sets the
\* ceiling to the old ceiling plus 10, or to the configured maximum
\* performance when that is less
C29_RecoveryRampCapped ==
    [][\A c \in Cores :
          /\ thermal_state[c] = "RECOVERY" /\ thermal_state'[c] = "RECOVERY"
          /\ polled'.cpu = c /\ zen_read_temperature(polled'.rd) # 0
          /\ polled' # polled \/ thermalVars' # thermalVars
          => thermal_throttle_perf'[c] =
                 Min(thermal_throttle_perf[c] + 10, zen_freq_max_perf)]_vars

(***************************************************************************)
(* The thermal loop polling one core for long enough for the PI integral   *)
(* to wind up: samples over the hard limit, sustained ones just under it   *)
(* and just inside the hysteresis band, and cool ones.                     *)
(***************************************************************************)
\* thermal events a run of the wind-up counts
MaxWindupEvents == 10

WindupReads == [err : {FALSE}, valid : {TRUE}, temp : {95, 89, 77, 70}]

InitWindup ==
    /\ zen_freq_max_perf \in MaxPerfParams
    /\ InitCallers
    /\ InitCores({1}, [c \in Cores |-> DefaultTable])

NextWindup == ThermalPollCapped(1, WindupReads, MaxWindupEvents)

SpecWindup == InitWindup /\ [][NextWindup]_vars

\* C30: the integral of every core is within [-1000, 1000], and it is 0
\* after every poll that takes a core from SoftThrottle to Recovery
C30_IntegralBoundedAndReset ==
    [][\A c \in Cores :
          /\ thermal_integral'[c] >= -1000 /\ thermal_integral'[c] <= 1000
          /\ thermal_state[c] = "SOFT_THROTTLE" /\ thermal_state'[c] = "RECOVERY"
                => thermal_integral'[c] = 0]_vars

\* the integral at the upper bound after a poll that would have passed it
C30_WoundUp ==
    /\ thermal_state[1] = "SOFT_THROTTLE"
    /\ thermal_integral[1] = 1000
    /\ last_temp[1] = 89
    /\ thermal_throttle_perf[1] = 245

\* C23: the target a publish installs has a sequence number strictly greater
\* than that of the target it replaces
C23_SequenceIncreases ==
    [][pub_pc = "filled" /\ pub_pc' = "swapped" /\ perf_target[pub_cpu] # 0
          => tgt[perf_target'[pub_cpu]].sequence > tgt[perf_target[pub_cpu]].sequence]_vars

\* the targets installed as current
Installed == {perf_target[c] : c \in {d \in Cores : zfreq_cpu_data[d]}}

\* C24: every core under control has one current target, which is
\* allocated; no step changes the fields of a target that is installed or
\* retired; the current target changes only at the swap of a publish, so a
\* publish whose allocation failed leaves it installed as it was
C24_OneImmutableCurrentTarget ==
    [][/\ \A c \in Cores :
             zfreq_cpu_data'[c] =>
                 perf_target'[c] \in Slots /\ tgt'[perf_target'[c]].st = "live"
       /\ \A s \in Slots :
             (s \in Installed \/ Retired(s)) /\ tgt[s].st = "live" /\ tgt'[s].st = "live"
                 => tgt'[s] = tgt[s]
       /\ \A s \in Installed : tgt'[s] = tgt[s]
       /\ ~(pub_pc = "filled" /\ pub_pc' = "swapped") => perf_target' = perf_target]_vars

\* a policy change whose allocation failed: the policy holds the new bounds,
\* no publish is in progress or was retired, and the target installed by
\* the initialization is still current
C24_FailedPublishKeptTarget ==
    /\ ~oops
    /\ policy_max[1] = 2800000 /\ policy_min[1] = 2200000
    /\ pub_pc = "idle" /\ rcu_cbs = {}
    /\ perf_target[1] = 1 /\ tgt[1] = ZeroTarget
    /\ FreeSlots # {}

(***************************************************************************)
(* The slow path: policy changes, suspend and resume of core 1, with the   *)
(* hot path running on it.  zcpu->update_lock is initialised by            *)
(* zen_freq_init_cpu; no function of the driver locks or unlocks it.       *)
(***************************************************************************)
\* zen_freq_suspend: the lowest P-state, written on the core before the
\* call returns
zen_freq_suspend(c) ==
    IF Len(pstates[c]) > 0
    THEN /\ cur_pstate' = [cur_pstate EXCEPT ![c] = Len(pstates[c]) - 1]
         /\ cur_freq' = [cur_freq EXCEPT ![c] = pstates[c][Len(pstates[c])]]
    ELSE UNCHANGED <<cur_pstate, cur_freq>>

Suspend(c) ==
    /\ pub_pc = "idle"
    /\ zfreq_cpu_data[c]
    /\ zcpu_mem[c] = "live"
    /\ zen_freq_suspend(c)
    /\ UNCHANGED <<readerFrame, readerVars, lowest_perf, highest_perf, pstates,
                   min_freq, max_freq, dynamic_epp, nominal_freq, io_boost_active,
                   io_boost_expire, last_io_wait, io_boosts, util_low_since,
                   ipi_pending, pstate_safe, voltage_clamps, rcu_cbs>>

\* zen_freq_resume: zen_freq_set_policy with the bounds the policy holds
Resume(c) ==
    /\ pub_pc = "idle"
    /\ rcu_cbs = {}
    /\ zfreq_cpu_data[c]
    /\ zcpu_mem[c] = "live"
    /\ zen_freq_set_policy(c, policy_min[c], policy_max[c])
    /\ UNCHANGED <<zen_freq_max_perf, hwVars, thermalVars, coreVars, policyVars,
                   allocVars, perf_target, rcu_cbs, readerVars, threadVars, mx_pc,
                   piVars, pollVars>>

InitSlow ==
    /\ zen_freq_max_perf = 255
    /\ InitCallers
    /\ InitCores({1}, [c \in Cores |-> DefaultTable])

NextSlow ==
    \/ Resume(1)
    \/ Suspend(1)
    \/ rcu_cbs = {} /\ PolicyUpdateOn(1, {2200000, 3600000})
    \/ PublishSwap
    \/ PublishRetire
    \/ RcuReclaim
    \/ FastSwitchEnter(1, 1)
    \/ FastSwitchScanOn(1, {2800000, 3600000}, {0})
    \/ FastSwitchTarget(1)
    \/ FastSwitchUnlock(1)
    \/ FastSwitchApplyOn(1, {TRUE})
    \/ RemoteWrite(1)

SpecSlow == InitSlow /\ [][NextSlow]_vars

\* the step is one of a slow-path mutation of core c: a step of the publish
\* of a policy change or a resume, or the write of a suspend
SlowStep(c) ==
    \/ pub_pc = "idle" /\ pub_pc' = "filled" /\ pub_cpu' = c
    \/ pub_pc # "idle" /\ pub_pc' # pub_pc /\ pub_cpu = c
    \/ cur_pstate'[c] # cur_pstate[c] /\ rd_pc' = rd_pc

\* C28: every step of a slow-path mutation of a core is taken with the
\* update lock of the core held, and no step of the hot path changes the
\* lock
C28_SlowPathUnderUpdateLock ==
    [][/\ \A c \in Cores : SlowStep(c) => update_lock[c]
       /\ rd_pc' # rd_pc => update_lock' = update_lock]_vars

(***************************************************************************)
(* zen_freq_init_cpu.  The P-state definition MSRs of a core are a bank of *)
(* ZEN_MAX_PSTATES entries: whether rdmsrl_safe_on_cpu fails on it, bit 63 *)
(* (PSTATE_DEF_EN) and the low bits of the value.                          *)
(***************************************************************************)
\* the entries a bank is made of: one that cannot be read, a disabled one
\* with a frequency in it, 500 MHz at vid 20 and 166 MHz at vid 3
MsrDefs == {[err |-> TRUE, en |-> FALSE, val |-> 0],
            [err |-> FALSE, en |-> FALSE, val |-> RawDef(36, 0)],
            [err |-> FALSE, en |-> TRUE, val |-> RawDef(20, 0) + 2048 * 20],
            [err |-> FALSE, en |-> TRUE, val |-> RawDef(20, 8) + 2048 * 3]}

\* the banks a core is initialised from: an entry of MsrDefs, the disabled
\* entry or the one of 166 MHz after it, and six disabled entries
MsrBanks ==
    {[i \in 1..ZEN_MAX_PSTATES |->
         IF i = 1 THEN a ELSE IF i = 2 THEN b
         ELSE [err |-> FALSE, en |-> FALSE, val |-> 0]] :
        a \in MsrDefs, b \in {d \in MsrDefs : ~d.err /\ PSTATE_DEF_VID(d.val) < 20}}

\* the allocation of zen_freq_init_cpu that fails, if any
AllocFails == {"none", "zcpu", "table", "target"}

RECURSIVE PstateInfo_noskip(_, _, _)
\* variant: disabled entries are taken as well
PstateInfo_noskip(bank, i, acc) ==
    IF i > ZEN_MAX_PSTATES THEN acc
    ELSE IF bank[i].err THEN PstateInfo_noskip(bank, i + 1, acc)
    ELSE PstateInfo_noskip(bank, i + 1,
             Append(acc, [pstate |-> i - 1,
                          freq |-> zen_freq_calc_freq_from_pstate(bank[i].val),
                          vid |-> PSTATE_DEF_VID(bank[i].val)]))

RECURSIVE PstateInfo(_, _, _)
\* the loop of zen_freq_get_pstate_info from entry i on, acc being pstates[]
PstateInfo(bank, i, acc) ==
    IF i > ZEN_MAX_PSTATES THEN acc
    ELSE IF bank[i].err \/ ~bank[i].en THEN PstateInfo(bank, i + 1, acc)
    ELSE PstateInfo(bank, i + 1,
             Append(acc, [pstate |-> i - 1,
                          freq |-> zen_freq_calc_freq_from_pstate(bank[i].val),
                          vid |-> PSTATE_DEF_VID(bank[i].val)]))

zen_freq_get_pstate_info(bank) ==
    LET ps == PstateInfo(bank, 1, << >>)
    IN  [pstates |-> ps, ret |-> IF Len(ps) > 0 THEN 0 ELSE -ENODEV]

\* zen_voltage_check_all_pstates on the P-states read
VerifiedPstates(ps) ==
    [i \in DOMAIN ps |->
        zen_voltage_verify_pstate([vid |-> ps[i].vid, boost |-> FALSE, safe |-> FALSE,
                                   voltage |-> 0], zen_freq_voltage_max)]

\* the core state of c as a successful zen_freq_init_cpu registers it, with
\* the P-states ps and the first performance target in slot s
RegisterCore(c, ps, s) ==
    LET tbl == [i \in DOMAIN ps |-> ps[i].freq] IN
    /\ zfreq_cpu_data' = [zfreq_cpu_data EXCEPT ![c] = TRUE]
    /\ zcpu_mem' = [zcpu_mem EXCEPT ![c] = "live"]
    /\ table_mem' = [table_mem EXCEPT ![c] = "live"]
    /\ perf_target' = [perf_target EXCEPT ![c] = s]
    /\ tgt' = [tgt EXCEPT ![s] = ZeroTarget]
    /\ thermal_state' = [thermal_state EXCEPT ![c] = "NORMAL"]
    /\ thermal_integral' = [thermal_integral EXCEPT ![c] = 0]
    /\ thermal_throttle_perf' = [thermal_throttle_perf EXCEPT ![c] = 255]
    /\ last_temp' = [last_temp EXCEPT ![c] = 0]
    /\ thermal_events' = [thermal_events EXCEPT ![c] = 0]
    /\ lowest_perf' = [lowest_perf EXCEPT ![c] = 0]
    /\ highest_perf' = [highest_perf EXCEPT ![c] = 255]
    /\ pstates' = [pstates EXCEPT ![c] = tbl]
    /\ min_freq' = [min_freq EXCEPT ![c] = MinOf(tbl)]
    /\ max_freq' = [max_freq EXCEPT ![c] = MaxOf(tbl)]
    /\ cur_pstate' = [cur_pstate EXCEPT ![c] = 0]
    /\ dynamic_epp' = [dynamic_epp EXCEPT ![c] = ZEN_EPP_BALANCE]
    /\ nominal_freq' = [nominal_freq EXCEPT ![c] = MaxOf(tbl)]
    /\ io_boost_active' = [io_boost_active EXCEPT ![c] = FALSE]
    /\ io_boost_expire' = [io_boost_expire EXCEPT ![c] = 0]
    /\ last_io_wait' = [last_io_wait EXCEPT ![c] = 0]
    /\ io_boosts' = [io_boosts EXCEPT ![c] = 0]
    /\ util_low_since' = [util_low_since EXCEPT ![c] = 0]
    /\ cur_freq' = [cur_freq EXCEPT ![c] = 0]
    /\ ipi_pending' = [ipi_pending EXCEPT ![c] = FALSE]
    /\ pstate_safe' = [pstate_safe EXCEPT ![c] =
                          [i \in DOMAIN ps |-> VerifiedPstates(ps)[i].ps.safe]]
    /\ voltage_clamps' = [voltage_clamps EXCEPT ![c] =
                             Cardinality({i \in DOMAIN ps : ~VerifiedPstates(ps)[i].ret})]
    /\ policy_min' = [policy_min EXCEPT ![c] = MinOf(tbl)]
    /\ policy_max' = [policy_max EXCEPT ![c] = MaxOf(tbl)]
    /\ low_run' = [low_run EXCEPT ![c] = 0]
    /\ transitions' = [transitions EXCEPT ![c] = 0]

\* a zen_freq_init_cpu that fails: what it allocated is freed again and
\* nothing is registered
AbandonCore(c, allocated) ==
    /\ zcpu_mem' = [zcpu_mem EXCEPT ![c] = IF allocated THEN "freed" ELSE @]
    /\ UNCHANGED <<zfreq_cpu_data, table_mem, perf_target, tgt, thermalVars, coreVars,
                   policyVars, low_run, transitions>>

zen_freq_init_cpu(c, bank, fail) ==
    LET info == zen_freq_get_pstate_info(bank) IN
    IF fail = "zcpu"
    THEN AbandonCore(c, FALSE) /\ inited' = [cpu |-> c, bank |-> bank, fail |-> fail, ret |-> -ENOMEM]
    ELSE IF info.ret # 0
    THEN AbandonCore(c, TRUE) /\ inited' = [cpu |-> c, bank |-> bank, fail |-> fail, ret |-> info.ret]
    ELSE IF fail \in {"table", "target"} \/ FreeSlots = {}
    THEN AbandonCore(c, TRUE) /\ inited' = [cpu |-> c, bank |-> bank, fail |-> fail, ret |-> -ENOMEM]
    ELSE RegisterCore(c, info.pstates, AllocSlot)
         /\ inited' = [cpu |-> c, bank |-> bank, fail |-> fail, ret |-> 0]

\* the cpufreq core brings a core that is not under control online
InitCpuOn(c, banks, fails) ==
    /\ mx_pc = "loaded"
    /\ ~zfreq_cpu_data[c]
    /\ \E bank \in banks, fail \in fails : zen_freq_init_cpu(c, bank, fail)
    /\ update_lock' = [update_lock EXCEPT ![c] = FALSE]
    /\ UNCHANGED <<zen_freq_max_perf, jiffies, zen_freq_voltage_max, vps, vret, vclamps,
                   sampled, zen_freq_mode, pdef, pfreq, onl, rcu_cbs, readerVars,
                   pubVars,
                   threadVars, mx_pc, piVars, pollVars>>

InitCpu(c) == InitCpuOn(c, MsrBanks, AllocFails)

\* the accessor of the current frequency
zen_freq_get(c) == IF ~zfreq_cpu_data[c] THEN 0 ELSE cur_freq[c]

\* the reads of the thermal loop while cores come and go: over the hard limit
InitReads == [err : {FALSE}, valid : {TRUE}, temp : {95}]

InitInit ==
    /\ zen_freq_max_perf = 255
    /\ InitCallers
    /\ InitCores({1}, [c \in Cores |-> DefaultTable])

NextInit ==
    \/ InitCpu(2)
    \/ zen_freq_exit_cpu(2)
    \/ ThermalPollOn(2, InitReads)
    \/ FastSwitchEnter(1, 2)
    \/ FastSwitchScanOn(1, {500000}, {0})
    \/ FastSwitchTarget(1)
    \/ FastSwitchUnlock(1)
    \/ FastSwitchApplyOn(1, {TRUE})
    \/ RemoteWrite(2)

SpecInit == InitInit /\ [][NextInit]_vars

\* the entries of a bank that can be read and are enabled
EnabledDefs(bank) == {i \in DOMAIN bank : ~bank[i].err /\ bank[i].en}

\* C22: an initialization that could allocate the core state and finds no
\* enabled entry fails with -ENODEV, registers no core state, leaves nothing
\* allocated and no new target, and the accessor reports 0 for the core; an
\* initialization that succeeds has taken exactly the enabled entries; the
\* thermal state of a core that is not registered never changes
C22_NoOperatingPointsLeavesCoreOut ==
    [][/\ \A c \in Cores :
             inited' # inited /\ inited'.cpu = c =>
             LET bank == inited'.bank
             IN  /\ inited'.fail # "zcpu" /\ EnabledDefs(bank) = {} =>
                       /\ inited'.ret = -19
                       /\ ~zfreq_cpu_data'[c]
                       /\ zcpu_mem'[c] # "live" /\ table_mem'[c] # "live"
                       /\ tgt' = tgt /\ perf_target' = perf_target
                       /\ (zen_freq_get(c))' = 0
                 /\ inited'.ret = 0 =>
                       /\ zfreq_cpu_data'[c]
                       /\ Len(pstates'[c]) = Cardinality(EnabledDefs(bank))
                       /\ Len(pstates'[c]) > 0
       /\ \A c \in Cores :
             ~zfreq_cpu_data[c] /\ ~zfreq_cpu_data'[c] =>
                 /\ thermal_state'[c] = thermal_state[c]
                 /\ thermal_throttle_perf'[c] = thermal_throttle_perf[c]
                 /\ last_temp'[c] = last_temp[c]]_vars

\* core 2 was released while the hot path had set a frequency on it, then
\* initialised again from a bank with a disabled entry but no enabled one:
\* -ENODEV, and the core is not under control
C22_FailedOnDisabledBank ==
    /\ inited.cpu = 2 /\ inited.ret = -19 /\ inited.fail = "none"
    /\ inited.bank[1].val # 0 /\ ~inited.bank[1].en
    /\ ~zfreq_cpu_data[2] /\ zcpu_mem[2] = "freed"
    /\ cur_freq[2] # 0

(***************************************************************************)
(* The stop of the thermal thread.  kthread_stop sets the flag that        *)
(* kthread_should_stop reads, wakes the thread and waits for it to exit;   *)
(* the thread is a kernel thread the scheduler runs whenever it can run,   *)
(* and its sleep ends at the wake-up or after ZEN_THERMAL_POLL_INTERVAL_MS.*)
(***************************************************************************)
InitStop ==
    /\ zen_freq_max_perf = 255
    /\ InitCallers
    /\ InitCores(Cores, [c \in Cores |-> DefaultTable])

NextStop ==
    \/ ThreadTop
    \/ ThreadLoad
    \/ ThreadCheckOn(CoarseReads)
    \/ ExitBegin
    \/ \E c \in Cores : zen_freq_exit_cpu(c)
    \/ ExitStopThread
    \/ ExitThreadJoined
    \/ ExitFreeLoop

SpecStop ==
    /\ InitStop /\ [][NextStop]_vars
    /\ WF_vars(ThreadTop) /\ WF_vars(ThreadLoad) /\ WF_vars(ThreadCheckOn(CoarseReads))
    /\ WF_vars(ExitThreadJoined)

\* C27: once the stop is requested the thread starts no pass from the top
\* of its loop and stays exited once it has exited; the thread does exit;
\* zen_thermal_guard_exit has returned only if the thread has exited, and
\* it does return
C27_StopObservedThenJoined ==
    /\ [][should_stop /\ tt_pc = "top" => tt_pc' \in {"top", "exited"}]_vars
    /\ [][tt_pc = "exited" => tt_pc' = "exited"]_vars
    /\ [](mx_pc \in {"freeing", "unloaded"} => tt_pc = "exited")
    /\ (should_stop ~> tt_pc = "exited")
    /\ (should_stop ~> mx_pc \in {"freeing", "unloaded"})

\* the stop was requested, the thread, which had polled a core, has exited
\* and zen_thermal_guard_exit has returned
C27_StoppedAfterPolling ==
    /\ should_stop /\ tt_pc = "exited" /\ mx_pc = "freeing"
    /\ polled.cpu # 0

(***************************************************************************)
(* Claims about single polls of the thermal state machine.                 *)
(***************************************************************************)
\* the moves of the thermal state that skip a stage
SkippedStage ==
    { <<"SOFT_THROTTLE", "NORMAL">>, <<"HARD_THROTTLE", "NORMAL">>,
      <<"HARD_THROTTLE", "RECOVERY">>, <<"NORMAL", "RECOVERY">> }

\* C34: no poll moves the thermal state of a core from SoftThrottle to
\* Normal, from HardThrottle to Normal or Recovery, or from Normal to
\* Recovery: Normal is entered only from Recovery, and HardThrottle is left
\* only to SoftThrottle.
C34_NoStageSkipped ==
    [][\A c \in Cores :
          /\ <<thermal_state[c], thermal_state'[c]>> \notin SkippedStage
          /\ (thermal_state'[c] = "NORMAL" /\ thermal_state[c] # "NORMAL")
                => thermal_state[c] = "RECOVERY"
          /\ (thermal_state[c] = "HARD_THROTTLE" /\ thermal_state'[c] # "HARD_THROTTLE")
                => thermal_state'[c] = "SOFT_THROTTLE"]_vars

\* C34 witness: core 1 is back in Normal on a cool sample after it was
\* throttled.
C34_BackToNormal ==
    /\ thermal_state[1] = "NORMAL"
    /\ thermal_events[1] > 0
    /\ polled.cpu = 1 /\ polled.rd.temp < ZEN_THERMAL_SAFE_LIMIT

\* C35: the poll that takes a core from SoftThrottle to Recovery leaves the
\* throttle ceiling at the value it had before the poll and counts no
\* thermal event.
C35_CeilingKeptIntoRecovery ==
    [][\A c \in Cores :
          (thermal_state[c] = "SOFT_THROTTLE" /\ thermal_state'[c] = "RECOVERY")
             => /\ thermal_throttle_perf'[c] = thermal_throttle_perf[c]
                /\ thermal_events'[c] = thermal_events[c]]_vars

\* C39: for every 8-bit voltage id the verifier works on the voltage
\* 1550 - 25 * vid itself, so under the default ceiling of 1450 mV every
\* point with a voltage id of 4 or more, those above 62 included, is marked
\* safe, verified true and not counted as clamped.
C39_VoltageNotWrapped ==
    [][vps.st = "fresh" /\ vps'.st = "verified" =>
          /\ vps'.voltage = 1550 - 25 * vps.vid
          /\ (vps.vid >= 4 /\ zen_freq_voltage_max = ZEN_VOLTAGE_MAX_SAFE)
                => vps'.safe /\ vret' /\ vclamps' = vclamps]_vars

\* C32: a call of the hot path that read the thermal state HardThrottle
\* neither writes a P-state of a frequency above that of the lowest
\* performance point nor returns such a frequency, whatever the request and
\* whether or not the I/O boost was active.
C32_HardThrottleHoldsLowest ==
    (switched.cpu # 0 /\ switched.seen.state = "HARD_THROTTLE") =>
        /\ switched.ret <= min_freq[switched.cpu]
        /\ switched.ok =>
              pstates[switched.cpu][switched.pstate + 1] <= min_freq[switched.cpu]

\* C38: the bounds zen_freq_verify_policy leaves in the policy of a
\* registered core satisfy min_freq <= policy min <= policy max <= max_freq
\* of the core, whatever bounds were requested.
C38_VerifiedInsideCoreRange ==
    \A c \in Cores :
        zfreq_cpu_data[c] /\ zcpu_mem[c] = "live" =>
            /\ min_freq[c] <= policy_min[c]
            /\ policy_min[c] <= policy_max[c]
            /\ policy_max[c] <= max_freq[c]

(***************************************************************************)
(* The I/O boost under a counter that does not only grow: the value the    *)
(* scheduler hands to the utilization callback stays, jumps or goes back.  *)
(***************************************************************************)
BackwardDeltas == {-100000, -1, 0, 100001}

\* the I/O boosts counted in a run over such a counter
MaxIoBoosts == 3

InitIoWait ==
    /\ zen_freq_max_perf = 255
    /\ InitCallers
    /\ InitCores({1}, [c \in Cores |-> DefaultTable])

NextIoWait ==
    \/ io_boosts[1] < MaxIoBoosts /\ UtilSampleOn(1, BackwardDeltas, {50})
    \/ Tick

SpecIoWait == InitIoWait /\ [][NextIoWait]_vars

\* C37: a utilization sample whose I/O wait is less than or equal to that of
\* the previous sample activates no I/O boost: it does not set the boost
\* flag, does not move the expiry and does not count a boost.
C37_NoBoostWhenCounterNotGrown ==
    [][\A c \in Cores :
          (IsSample(c) /\ sampled'.io_wait <= last_io_wait[c]) =>
             /\ io_boost_active'[c] => io_boost_active[c]
             /\ io_boost_expire'[c] = io_boost_expire[c]
             /\ io_boosts'[c] = io_boosts[c]]_vars

(***************************************************************************)
(* The writers of cur_pstate: the hot path, zen_freq_set_pstate_zero_ipi,  *)
(* zen_freq_suspend and the CPU-offline hook.  The calls of                *)
(* smp_call_function_single with wait = 1 run zen_write_pstate_local       *)
(* before they return, or fail when the core is offline.                   *)
(***************************************************************************)
\* variant: the P-state index is not checked against num_pstates
zen_freq_set_pstate_zero_ipi_nocheck(c, pstate, ok) ==
    /\ cur_pstate' = [cur_pstate EXCEPT ![c] = pstate]
    /\ cur_freq' = [cur_freq EXCEPT ![c] =
                       IF ok /\ pstate < Len(pstates[c])
                       THEN pstates[c][pstate + 1] ELSE @]
    /\ transitions' = [transitions EXCEPT ![c] = IF ok THEN @ + 1 ELSE @]

zen_freq_set_pstate_zero_ipi(c, pstate, ok) ==
    IF pstate >= Len(pstates[c])
    THEN UNCHANGED <<cur_pstate, cur_freq, transitions>>
    ELSE /\ cur_pstate' = [cur_pstate EXCEPT ![c] = pstate]
         /\ cur_freq' = [cur_freq EXCEPT ![c] = IF ok THEN pstates[c][pstate + 1] ELSE @]
         /\ transitions' = [transitions EXCEPT ![c] = IF ok THEN @ + 1 ELSE @]

\* the P-state indexes the callers ask for: every index of a full table and
\* the first one past it
PstateRequests == 0..ZEN_MAX_PSTATES

pstateFrame == <<zen_freq_max_perf, jiffies, zen_freq_voltage_max, vps, vret, vclamps,
                 sampled, initVars, low_run, onl, thermalVars, policyVars, allocVars,
                 targetVars, readerVars, pubVars, threadVars, mx_pc, piVars, pollVars,
                 lowest_perf, highest_perf, pstates, min_freq, max_freq, dynamic_epp,
                 nominal_freq, io_boost_active, io_boost_expire, last_io_wait,
                 io_boosts, util_low_since, ipi_pending, pstate_safe, voltage_clamps>>

SetPstate(c) ==
    /\ zfreq_cpu_data[c]
    /\ zcpu_mem[c] = "live"
    /\ transitions[c] < MaxTransitions
    /\ \E pstate \in PstateRequests, ok \in BOOLEAN :
          zen_freq_set_pstate_zero_ipi(c, pstate, ok)
    /\ UNCHANGED pstateFrame

zen_freq_cpu_offline(c, ok) ==
    IF Len(pstates[c]) > 0
    THEN /\ cur_pstate' = [cur_pstate EXCEPT ![c] = Len(pstates[c]) - 1]
         /\ cur_freq' = [cur_freq EXCEPT ![c] =
                            IF ok THEN pstates[c][Len(pstates[c])] ELSE @]
    ELSE UNCHANGED <<cur_pstate, cur_freq>>

CpuOffline(c) ==
    /\ zfreq_cpu_data[c]
    /\ zcpu_mem[c] = "live"
    /\ \E ok \in BOOLEAN : zen_freq_cpu_offline(c, ok)
    /\ UNCHANGED <<pstateFrame, transitions>>

InitPstate ==
    /\ zen_freq_max_perf = 255
    /\ InitCallers
    /\ \E t \in Tables : InitCores({1}, [c \in Cores |-> t])

NextPstate ==
    \/ Suspend(1)
    \/ CpuOffline(1)
    \/ SetPstate(1)
    \/ FastSwitchEnter(1, 1)
    \/ FastSwitchScan(1)
    \/ FastSwitchTarget(1)
    \/ FastSwitchUnlock(1)
    \/ FastSwitchApply(1)
    \/ RemoteWrite(1)

SpecPstate == InitPstate /\ [][NextPstate]_vars

\* C36: the current P-state index of every initialized core is an index of
\* its P-state table, after hot-path calls, calls of
\* zen_freq_set_pstate_zero_ipi with indexes inside and outside the table
\* (the latter change nothing), suspends and CPU-offline hooks in any order.
C36_CurPstateInTable ==
    \A c \in Cores :
        zfreq_cpu_data[c] /\ zcpu_mem[c] = "live" => cur_pstate[c] < Len(pstates[c])

\* C36 witness: zen_freq_set_pstate_zero_ipi has set the last index of a
\* table of three P-states, after the hot path had selected the middle one.
C36_LastIndexSet ==
    /\ Len(pstates[1]) = 3 /\ cur_pstate[1] = 2 /\ cur_freq[1] = 2200000
    /\ transitions[1] = 1 /\ switched.cpu = 1 /\ switched.pstate = 1

(***************************************************************************)
(* The order of the P-states: cores initialised from banks whose first     *)
(* three definitions are each disabled or one of 500, 400 and 166 MHz, in  *)
(* every order.                                                            *)
(***************************************************************************)
OrderDefs == {[err |-> FALSE, en |-> FALSE, val |-> 0],
              [err |-> FALSE, en |-> TRUE, val |-> RawDef(20, 0) + 2048 * 3],
              [err |-> FALSE, en |-> TRUE, val |-> RawDef(16, 0) + 2048 * 3],
              [err |-> FALSE, en |-> TRUE, val |-> RawDef(20, 8) + 2048 * 3]}

OrderBanks ==
    {[i \in 1..ZEN_MAX_PSTATES |->
         IF i = 1 THEN a ELSE IF i = 2 THEN b ELSE IF i = 3 THEN d
         ELSE [err |-> FALSE, en |-> FALSE, val |-> 0]] :
        a \in OrderDefs, b \in OrderDefs, d \in OrderDefs}

InitOrder ==
    /\ zen_freq_max_perf = 255
    /\ InitCallers
    /\ InitCores({1}, [c \in Cores |-> DefaultTable])

NextOrder ==
    \/ InitCpuOn(2, OrderBanks, {"none"})
    \/ zen_freq_exit_cpu(2)

SpecOrder == InitOrder /\ [][NextOrder]_vars

\* a sequence of frequencies that never rises, or never falls, along its
\* indexes
Monotonic(seq) ==
    \/ \A i, j \in DOMAIN seq : i <= j => seq[i] >= seq[j]
    \/ \A i, j \in DOMAIN seq : i <= j => seq[i] <= seq[j]

\* C31: whatever enabled definitions the hardware reports, the P-state array
\* of an initialised core and the frequency table built from it are ordered
\* by frequency, ascending or descending, with no entry out of order.
C31_TablesMonotonic ==
    \A c \in Cores :
        zfreq_cpu_data[c] /\ zcpu_mem[c] = "live" =>
            Monotonic(pstates[c]) /\ Monotonic(FreqTable(c))

(***************************************************************************)
(* Two publishers on one core.  zen_freq_cpu_online calls                  *)
(* zen_freq_set_policy on the policy the core holds, from the hotplug      *)
(* thread, while the cpufreq core may be inside zen_freq_set_policy for a  *)
(* policy change; zen_perf_target_update takes no lock.                    *)
(* rcu_replace_pointer is a plain load of the pointer followed by          *)
(* rcu_assign_pointer, so the hook's publish is four steps: fill, load,    *)
(* store, retire.                                                          *)
(***************************************************************************)
onlineFrame == <<zen_freq_max_perf, jiffies, zen_freq_voltage_max, vps, vret, vclamps,
                 sampled, initVars, low_run, transitions, thermalVars, coreVars,
                 policyVars, allocVars, readerVars, pub_pc, pub_cpu, pub_new, pub_old,
                 threadVars, mx_pc, piVars, pollVars>>

\* zen_freq_cpu_online up to the filling of the new target
zen_freq_cpu_online(c) ==
    IF DivideError(c)
    THEN oops' = TRUE /\ UNCHANGED <<tgt, onl>>
    ELSE /\ UNCHANGED oops
         /\ \/ UNCHANGED <<tgt, onl>>
            \/ /\ FreeSlots # {}
               /\ tgt' = [tgt EXCEPT ![AllocSlot] =
                     [st |-> "live",
                      desired_perf |-> U8(ZEN_FREQ_TO_PERF(policy_max[c], min_freq[c],
                                                           max_freq[c], 0, 255)),
                      min_perf |-> U8(ZEN_FREQ_TO_PERF(policy_min[c], min_freq[c],
                                                       max_freq[c], 0, 255)),
                      max_perf |-> U8(thermal_throttle_perf[c]),
                      epp |-> U8(dynamic_epp[c]),
                      sequence |-> cur_pstate[c] + 1]]
               /\ onl' = [pc |-> "filled", cpu |-> c, new |-> AllocSlot, old |-> 0]

OnlineFill(c) ==
    /\ onl.pc = "idle"
    /\ zfreq_cpu_data[c]
    /\ zcpu_mem[c] = "live"
    /\ zen_freq_cpu_online(c)
    /\ UNCHANGED <<onlineFrame, perf_target, rcu_cbs>>

\* rcu_replace_pointer: the load of the current pointer
OnlineLoad ==
    /\ onl.pc = "filled"
    /\ onl' = [onl EXCEPT !.pc = "loaded", !.old = perf_target[onl.cpu]]
    /\ UNCHANGED <<onlineFrame, oops, targetVars>>

\* rcu_replace_pointer: the store of the new pointer
OnlineStore ==
    /\ onl.pc = "loaded"
    /\ perf_target' = [perf_target EXCEPT ![onl.cpu] = onl.new]
    /\ onl' = [onl EXCEPT !.pc = "stored"]
    /\ UNCHANGED <<onlineFrame, oops, tgt, rcu_cbs>>

\* kfree_rcu of what the load returned
OnlineRetire ==
    /\ onl.pc = "stored"
    /\ IF onl.old # 0 THEN kfree_rcu(onl.old) ELSE UNCHANGED <<tgt, rcu_cbs>>
    /\ onl' = NoOnline
    /\ UNCHANGED <<onlineFrame, oops, perf_target>>

InitOnline ==
    /\ zen_freq_max_perf = 255
    /\ InitCallers
    /\ InitCores({1}, [c \in Cores |-> DefaultTable])

NextOnline ==
    \/ rcu_cbs = {} /\ PolicyUpdateOn(1, {3600000})
    \/ PublishSwap
    \/ PublishRetire
    \/ rcu_cbs = {} /\ OnlineFill(1)
    \/ OnlineLoad
    \/ OnlineStore
    \/ OnlineRetire
    \/ RcuReclaim

SpecOnline == InitOnline /\ [][NextOnline]_vars

\* the targets a publish in progress still has to install or to retire
InHand ==
    (IF pub_pc = "filled" THEN {pub_new} ELSE {})
        \cup (IF pub_pc = "swapped" THEN {pub_old} ELSE {})
        \cup (IF onl.pc \in {"filled", "loaded"} THEN {onl.new} ELSE {})
        \cup (IF onl.pc \in {"loaded", "stored"} THEN {onl.old} ELSE {})

\* C33: with the policy update and the CPU-online hook publishing on the
\* same core at the same time, every target that was current is handed to
\* deferred reclamation exactly once: a publish retires only a target that
\* is allocated and not retired already, and every allocated target is
\* current, retired or still in the hands of a publish.
C33_EachTargetRetiredOnce ==
    /\ [][/\ (pub_pc = "swapped" /\ pub_pc' = "idle" /\ pub_old # 0)
               => tgt[pub_old].st = "live" /\ ~Retired(pub_old)
          /\ (onl.pc = "stored" /\ onl'.pc = "idle" /\ onl.old # 0)
               => tgt[onl.old].st = "live" /\ ~Retired(onl.old)]_vars
    /\ [](\A s \in Slots :
             tgt[s].st = "live" => s \in Installed \cup InHand \/ Retired(s))

====
